---- MODULE Spec2Model ----
(***************************************************************************)
(* A model of idmapd's database utility routines (dbutils.c, stored as     *)
(* src/usr/src/lib/libvmm/mapfile-vers): the ephemeral id allocator, the   *)
(* per-batch SID history, the name-rule order, the id-mapping cache and    *)
(* the two-pass SID-to-id resolution.                                      *)
(*                                                                         *)
(* Representation of C values                                              *)
(*  - uid_t / gid_t / rid (32-bit unsigned): a record [hi, lo] that stands *)
(*    for the value hi * 2^31 + lo, hi in {0,1}, lo in 0..INT32_MAX.       *)
(*    An id is ephemeral (pid > INT32_MAX) exactly when hi = 1.            *)
(*  - char *: a sequence of one-character strings; the NULL pointer is the *)
(*    reserved value NULL, which is no sequence of single characters.      *)
(*  - req->direction (the state bitmask of a request): the set of the      *)
(*    flags that are set; _IDMAP_F_DONE is the mask with no flag set.      *)
(***************************************************************************)
EXTENDS Integers, Sequences, FiniteSets, TLC

(***************************************************************************)
(* Program constants                                                       *)
(***************************************************************************)
INT32_MAX == 2147483647
EPH_BLOCK == 8192
LOCALRID_MIN == 1000
IDMAP_CACHE_TTL == 600      \* seconds an idmap_cache row lives
NAME_CACHE_TTL == 3600      \* seconds a name_cache row lives

(***************************************************************************)
(* Bounds of the exploration                                               *)
(***************************************************************************)
MaxRollovers == 1           \* SpecAlloc: a run ends after this many + 1 requests
MaxRefusals == 2            \* refusals of the id-space authority in a run
MaxBatchLen == 2            \* Spec: requests in a batch
MaxBatches == 2             \* Spec: batches in a run
MaxTicks == 1               \* Spec: steps of the clock in a run
MaxRules == 2               \* Spec: rules in the rule store
MaxConcCalls == 2           \* SpecConc: calls of the allocator per thread
NThreads == 2               \* SpecConc: worker threads

(***************************************************************************)
(* 32-bit unsigned values                                                  *)
(***************************************************************************)
U32(hi, lo) == [hi |-> hi, lo |-> lo]

\* (p + n) mod 2^32 for 0 <= n <= INT32_MAX
U32Add(p, n) ==
    IF p.lo <= INT32_MAX - n
    THEN [hi |-> p.hi, lo |-> p.lo + n]
    ELSE [hi |-> 1 - p.hi, lo |-> p.lo - (INT32_MAX - n) - 1]

U32Geq(a, b) == a.hi > b.hi \/ (a.hi = b.hi /\ a.lo >= b.lo)
U32Gt(a, b) == a.hi > b.hi \/ (a.hi = b.hi /\ a.lo > b.lo)

\* #define IS_EPHEMERAL(pid) (pid > INT32_MAX)
IS_EPHEMERAL(pid) == U32Gt(pid, U32(0, INT32_MAX))

\* (uid_t)-1
UID_INVALID == U32(1, INT32_MAX)

\* The first id of the ephemeral range, 2^31.
EphBase == U32(1, 0)

VARIABLES
    \* _idmapdstate: the process-wide ephemeral counters
    next_uid, limit_uid, next_gid, limit_gid,
    \* the id-space authority (allocids): the first id it has not granted
    auth_uid, auth_gid,
    \* observations of the allocator calls (history variables)
    win_calls,      \* [uid, gid]: calls since the current window was granted
    nreq,           \* [uid, gid]: allocids requests issued so far
    nrefused,       \* refusals of the authority so far
    last_call,      \* what the latest get_next_eph_* call did and returned
    eph_out,        \* [uid, gid]: the last two ids returned with success
    \* SpecConc: threads inside get_next_eph_uid
    thr,            \* thread -> [pc, uid, calls]: position and local uid
    granted,        \* the starts of the blocks the authority has granted
    conc_rets,      \* the calls that returned: <<thread, call, err, id>>
    \* SpecOrder: one call of get_namerule_order
    nr_in,          \* its arguments
    nr_out,         \* its return value and out parameters, or NoResult
    \* SpecDir: one call of lookup_win_name2sid
    n2s,            \* its arguments, its local retries and what it returned
    \* Spec: the stores, the clock and the batch being served
    idmap_cache,    \* the rows of table idmap_cache
    name_cache,     \* the rows of table name_cache
    namerules,      \* the rows of table namerules
    now,            \* time(NULL)
    batch,          \* the requests of the batch (idmap_mapping)
    result,         \* their results (idmap_id_res)
    lookup_state,   \* lookup_state_t, with the driver's loop index curpos
    phase,          \* where the batch driver is
    trace,          \* per item: the branch its second pass took
    minted,         \* the ids minted for a SID and written to the cache
    nbatches,       \* batches started so far
    nticks,         \* clock steps so far
    \* SpecBusy: a store operation of a worker waiting for a lock
    busy,           \* the worker's two idmap_busy structures and the call
    \* SpecInit: the daemon's start-up
    startup         \* the store files and where init_dbs is

allocVars == <<next_uid, limit_uid, next_gid, limit_gid, auth_uid, auth_gid>>
obsVars == <<win_calls, nreq, nrefused, last_call, eph_out>>
concVars == <<thr, granted, conc_rets>>
ordVars == <<nr_in, nr_out, n2s>>
mapVars == <<idmap_cache, name_cache, namerules, now, batch, result,
             lookup_state, phase, trace, minted, nbatches, nticks>>
envVars == <<busy, startup>>
vars == <<allocVars, obsVars, concVars, ordVars, mapVars, envVars>>

(***************************************************************************)
(* The id-space authority: allocids(flag, nuids, &uid, ngids, &gid).       *)
(* A granted block starts at the first id never granted before.            *)
(***************************************************************************)
allocids(auth, n, grant) ==
    IF grant
    THEN [err |-> 0, start |-> auth, auth |-> U32Add(auth, n)]
    ELSE [err |-> -1, start |-> auth, auth |-> auth]

(***************************************************************************)
(* get_next_eph_uid / get_next_eph_gid                                     *)
(* The result holds the return value (err), the out parameter (out), the   *)
(* counters after the call, and whether the authority was asked.           *)
(***************************************************************************)
get_next_eph_uid_gt(next, limit, auth, grant) ==
    LET uid == next
        nxt == U32Add(next, 1)
    IN  IF U32Gt(uid, limit)
        THEN LET a == allocids(auth, EPH_BLOCK, grant)
             IN  IF a.err # 0
                 THEN [err |-> a.err, out |-> UID_INVALID, next |-> nxt,
                       limit |-> limit, auth |-> a.auth, asked |-> TRUE]
                 ELSE [err |-> 0, out |-> a.start, next |-> a.start,
                       limit |-> U32Add(a.start, EPH_BLOCK),
                       auth |-> a.auth, asked |-> TRUE]
        ELSE [err |-> 0, out |-> uid, next |-> nxt, limit |-> limit,
              auth |-> auth, asked |-> FALSE]

get_next_eph_uid(next, limit, auth, grant) ==
    LET uid == next                        \* uid = _idmapdstate.next_uid++
        nxt == U32Add(next, 1)
    IN  IF U32Geq(uid, limit)              \* uid >= _idmapdstate.limit_uid
        THEN LET a == allocids(auth, EPH_BLOCK, grant)
             IN  IF a.err # 0
                 THEN [err |-> a.err, out |-> UID_INVALID, next |-> nxt,
                       limit |-> limit, auth |-> a.auth, asked |-> TRUE]
                 ELSE [err |-> 0, out |-> a.start,
                       next |-> a.start,   \* next_uid = uid
                       limit |-> U32Add(a.start, EPH_BLOCK),
                       auth |-> a.auth, asked |-> TRUE]
        ELSE [err |-> 0, out |-> uid, next |-> nxt, limit |-> limit,
              auth |-> auth, asked |-> FALSE]

get_next_eph_gid(next, limit, auth, grant) ==
    LET gid == next                        \* gid = _idmapdstate.next_gid++
        nxt == U32Add(next, 1)
    IN  IF U32Geq(gid, limit)              \* gid >= _idmapdstate.limit_gid
        THEN LET a == allocids(auth, EPH_BLOCK, grant)
             IN  IF a.err # 0
                 THEN [err |-> a.err, out |-> UID_INVALID, next |-> nxt,
                       limit |-> limit, auth |-> a.auth, asked |-> TRUE]
                 ELSE [err |-> 0, out |-> a.start,
                       next |-> a.start,   \* next_gid = gid
                       limit |-> U32Add(a.start, EPH_BLOCK),
                       auth |-> a.auth, asked |-> TRUE]
        ELSE [err |-> 0, out |-> gid, next |-> nxt, limit |-> limit,
              auth |-> auth, asked |-> FALSE]

\* The observations after a call of kind k ("uid" or "gid") that returned r.
Observe(k, r) ==
    /\ win_calls' = [win_calls EXCEPT ![k] =
                        IF r.asked /\ r.err = 0 THEN 0 ELSE @ + 1]
    /\ nreq' = [nreq EXCEPT ![k] = IF r.asked THEN @ + 1 ELSE @]
    /\ nrefused' = IF r.asked /\ r.err # 0 THEN nrefused + 1 ELSE nrefused
    /\ last_call' = [kind |-> k, err |-> r.err, out |-> r.out,
                     asked |-> r.asked, nth |-> win_calls[k] + 1,
                     limit_before |-> IF k = "uid" THEN limit_uid
                                      ELSE limit_gid]
    /\ eph_out' = IF r.err = 0
                  THEN [eph_out EXCEPT ![k] =
                           IF Len(@) < 2 THEN Append(@, r.out)
                           ELSE <<@[2], r.out>>]
                  ELSE eph_out

\* The authority may refuse a request; a run holds at most MaxRefusals.
Grants == {TRUE} \cup (IF nrefused < MaxRefusals THEN {FALSE} ELSE {})

(***************************************************************************)
(* SpecAlloc: one allocator called over and over, from the window granted  *)
(* at start-up.  The two allocators share no state, so a run exercises one *)
(* of them.                                                                *)
(***************************************************************************)
NoCall == [kind |-> "none", err |-> 0, out |-> UID_INVALID, asked |-> FALSE,
           nth |-> 0, limit_before |-> U32(0, 0)]

FreshWindows ==
    /\ next_uid = EphBase
    /\ limit_uid = U32Add(EphBase, EPH_BLOCK)
    /\ auth_uid = U32Add(EphBase, EPH_BLOCK)
    /\ next_gid = EphBase
    /\ limit_gid = U32Add(EphBase, EPH_BLOCK)
    /\ auth_gid = U32Add(EphBase, EPH_BLOCK)

NoObservations ==
    /\ win_calls = [uid |-> 0, gid |-> 0]
    /\ nreq = [uid |-> 0, gid |-> 0]
    /\ nrefused = 0
    /\ last_call = NoCall
    /\ eph_out = [uid |-> <<>>, gid |-> <<>>]

\* No store operation is waiting and the daemon has started.
NoEnv ==
    /\ busy = [pc |-> "none"]
    /\ startup = [pc |-> "none"]

Threads == 1..NThreads

NoThreads ==
    /\ thr = [t \in Threads |-> [pc |-> "idle", uid |-> UID_INVALID,
                                 calls |-> 0]]
    /\ granted = {EphBase}
    /\ conc_rets = {}

NULL == <<"NULL">>
NoResult == [retcode |-> "none", w2u_order |-> 0, u2w_order |-> 0]

\* No call of lookup_win_name2sid is in progress.
NoLookup ==
    [pc |-> "idle", name |-> NULL, domain |-> NULL, retries |-> 0,
     retcode |-> "none", attempts |-> 0, ret |-> "none", sid |-> NULL,
     calls |-> 0]

NoOrder ==
    /\ nr_in = [winname |-> NULL, windomain |-> NULL, unixname |-> NULL,
                direction |-> "none"]
    /\ nr_out = NoResult
    /\ n2s = NoLookup

\* lookup_state_t before a batch is set up
\* The directory round in progress: the locals retries and retcode of
\* lookup_win_batch_sid2name, and a record of what the directory was handed
\* (attempts: batches started; enq: items enqueued in the last attempt; sent:
\* items enqueued in an attempt that reached the end of its batch; winrc:
\* what the call returned).
NoRound ==
    [retries |-> 0, retcode |-> "none", attempts |-> 0, enq |-> {},
     sent |-> {}, winrc |-> "none"]

NoState ==
    [sid2pid_done |-> TRUE, pid2sid_done |-> TRUE, ad_nqueries |-> 0,
     sid_history |-> <<>>,
     sid_history_size |-> 0, curpos |-> 0, hash |-> <<>>, ad |-> NoRound]

NoBatch ==
    /\ idmap_cache = {} /\ name_cache = {} /\ namerules = {}
    /\ now = 0
    /\ batch = <<>> /\ result = <<>> /\ trace = <<>>
    /\ lookup_state = NoState
    /\ phase = "off"
    /\ minted = {}
    /\ nbatches = 0 /\ nticks = 0

InitAlloc ==
    FreshWindows /\ NoObservations /\ NoEnv /\ NoThreads /\ NoOrder /\ NoBatch

AllocUid ==
    /\ last_call.kind # "gid"
    /\ nreq["uid"] <= MaxRollovers
    /\ \E grant \in Grants :
          LET r == get_next_eph_uid(next_uid, limit_uid, auth_uid, grant)
          IN  /\ next_uid' = r.next
              /\ limit_uid' = r.limit
              /\ auth_uid' = r.auth
              /\ Observe("uid", r)
    /\ UNCHANGED <<envVars, next_gid, limit_gid, auth_gid, concVars, ordVars, mapVars>>

AllocGid ==
    /\ last_call.kind # "uid"
    /\ nreq["gid"] <= MaxRollovers
    /\ \E grant \in Grants :
          LET r == get_next_eph_gid(next_gid, limit_gid, auth_gid, grant)
          IN  /\ next_gid' = r.next
              /\ limit_gid' = r.limit
              /\ auth_gid' = r.auth
              /\ Observe("gid", r)
    /\ UNCHANGED <<envVars, next_uid, limit_uid, auth_uid, concVars, ordVars, mapVars>>

NextAlloc == AllocUid \/ AllocGid

SpecAlloc == InitAlloc /\ [][NextAlloc]_vars

(***************************************************************************)
(* Claims about the allocator, checked under SpecAlloc                     *)
(***************************************************************************)

\* C2: over successful get_next_eph_uid calls (and likewise get_next_eph_gid
\* calls), also across a rollover into a new block of 8192 ids, no id is
\* returned twice and the ids of a block are handed out consecutively: each
\* id returned is greater than the id returned before it (the blocks of the
\* authority ascend, so an id that is not greater was returned before), and
\* it is that id plus one unless the call asked for a new block.
C2_NoReuseNoGap ==
    \A k \in {"uid", "gid"} :
        Len(eph_out[k]) = 2 =>
            /\ U32Gt(eph_out[k][2], eph_out[k][1])
            /\ (last_call.kind = k /\ last_call.err = 0 /\ ~last_call.asked)
                   => eph_out[k][2] = U32Add(eph_out[k][1], 1)

\* C3: from a freshly granted window, the first 8192 get_next_eph_uid calls
\* issue no request to the authority, and the 8193rd issues exactly one
\* request, for 8192 ids, and returns the first id of the granted block.
C3_Rollover ==
    [][win_calls'["uid"] # win_calls["uid"] =>
          /\ win_calls["uid"] < EPH_BLOCK => nreq'["uid"] = nreq["uid"]
          /\ win_calls["uid"] = EPH_BLOCK =>
                /\ nreq'["uid"] = nreq["uid"] + 1
                /\ last_call'.err = 0 =>
                      /\ last_call'.out = auth_uid
                      /\ auth_uid' = U32Add(auth_uid, EPH_BLOCK)
                      /\ limit_uid' = auth_uid']_vars

C3_Witness ==
    /\ last_call.kind = "uid"
    /\ last_call.nth = EPH_BLOCK + 1
    /\ last_call.asked
    /\ last_call.err = 0
    /\ nreq["uid"] = 1

(***************************************************************************)
(* SpecConc: NThreads worker threads inside get_next_eph_uid.  The function*)
(* takes no lock, so the reads and writes of _idmapdstate.next_uid and     *)
(* _idmapdstate.limit_uid of different threads interleave; next_uid++ is a *)
(* load followed by a store.  The window is granted at start-up and has    *)
(* been used by earlier calls.                                             *)
(***************************************************************************)
ConcInitUsed == {0, EPH_BLOCK - 1, EPH_BLOCK}

InitConc ==
    /\ \E used \in ConcInitUsed : next_uid = U32Add(EphBase, used)
    /\ limit_uid = U32Add(EphBase, EPH_BLOCK)
    /\ auth_uid = U32Add(EphBase, EPH_BLOCK)
    /\ next_gid = EphBase
    /\ limit_gid = U32Add(EphBase, EPH_BLOCK)
    /\ auth_gid = U32Add(EphBase, EPH_BLOCK)
    /\ NoObservations /\ NoEnv /\ NoThreads /\ NoOrder /\ NoBatch

\* *next_uid = (uid_t)-1; the call begins
T_Call(t) ==
    /\ thr[t].pc = "idle"
    /\ thr[t].calls < MaxConcCalls
    /\ thr' = [thr EXCEPT ![t] = [pc |-> "load_next", uid |-> UID_INVALID,
                                  calls |-> @.calls + 1]]
    /\ UNCHANGED <<envVars, allocVars, obsVars, granted, conc_rets, ordVars, mapVars>>

\* uid = _idmapdstate.next_uid++ : the load
T_LoadNext(t) ==
    /\ thr[t].pc = "load_next"
    /\ thr' = [thr EXCEPT ![t].pc = "store_next", ![t].uid = next_uid]
    /\ UNCHANGED <<envVars, allocVars, obsVars, granted, conc_rets, ordVars, mapVars>>

\* uid = _idmapdstate.next_uid++ : the store
T_StoreNext(t) ==
    /\ thr[t].pc = "store_next"
    /\ next_uid' = U32Add(thr[t].uid, 1)
    /\ thr' = [thr EXCEPT ![t].pc = "compare"]
    /\ UNCHANGED <<envVars, limit_uid, next_gid, limit_gid, auth_uid, auth_gid,
                   obsVars, granted, conc_rets, ordVars, mapVars>>

\* if (uid >= _idmapdstate.limit_uid)
T_Compare(t) ==
    /\ thr[t].pc = "compare"
    /\ thr' = [thr EXCEPT ![t].pc = IF U32Geq(thr[t].uid, limit_uid)
                                    THEN "allocids" ELSE "return"]
    /\ UNCHANGED <<envVars, allocVars, obsVars, granted, conc_rets, ordVars, mapVars>>

\* if ((err = allocids(0, 8192, &uid, 0, &gid)) != 0) return (err);
T_Allocids(t) ==
    /\ thr[t].pc = "allocids"
    /\ \E grant \in Grants :
          LET a == allocids(auth_uid, EPH_BLOCK, grant)
          IN  /\ auth_uid' = a.auth
              /\ IF a.err # 0
                 THEN /\ thr' = [thr EXCEPT ![t].pc = "idle"]
                      /\ conc_rets' = conc_rets \cup
                            {<<t, thr[t].calls, a.err, UID_INVALID>>}
                      /\ nrefused' = nrefused + 1
                      /\ UNCHANGED granted
                 ELSE /\ thr' = [thr EXCEPT ![t].pc = "store_limit",
                                            ![t].uid = a.start]
                      /\ granted' = granted \cup {a.start}
                      /\ UNCHANGED <<envVars, conc_rets, nrefused>>
    /\ UNCHANGED <<envVars, next_uid, limit_uid, next_gid, limit_gid, auth_gid,
                   win_calls, nreq, last_call, eph_out, ordVars, mapVars>>

\* _idmapdstate.limit_uid = uid + 8192;
T_StoreLimit(t) ==
    /\ thr[t].pc = "store_limit"
    /\ limit_uid' = U32Add(thr[t].uid, EPH_BLOCK)
    /\ thr' = [thr EXCEPT ![t].pc = "reset_next"]
    /\ UNCHANGED <<envVars, next_uid, next_gid, limit_gid, auth_uid, auth_gid,
                   obsVars, granted, conc_rets, ordVars, mapVars>>

\* _idmapdstate.next_uid = uid;
T_ResetNext(t) ==
    /\ thr[t].pc = "reset_next"
    /\ next_uid' = thr[t].uid
    /\ thr' = [thr EXCEPT ![t].pc = "return"]
    /\ UNCHANGED <<envVars, limit_uid, next_gid, limit_gid, auth_uid, auth_gid,
                   obsVars, granted, conc_rets, ordVars, mapVars>>

\* *next_uid = uid; return (0);
T_Return(t) ==
    /\ thr[t].pc = "return"
    /\ conc_rets' = conc_rets \cup {<<t, thr[t].calls, 0, thr[t].uid>>}
    /\ thr' = [thr EXCEPT ![t].pc = "idle"]
    /\ UNCHANGED <<envVars, allocVars, obsVars, granted, ordVars, mapVars>>

NextConc ==
    \E t \in Threads :
        \/ T_Call(t)
        \/ T_LoadNext(t)
        \/ T_StoreNext(t)
        \/ T_Compare(t)
        \/ T_Allocids(t)
        \/ T_StoreLimit(t)
        \/ T_ResetNext(t)
        \/ T_Return(t)

SpecConc == InitConc /\ [][NextConc]_vars

InBlock(id, start) ==
    U32Geq(id, start) /\ U32Gt(U32Add(start, EPH_BLOCK), id)

\* C4: when two workers call the ephemeral allocator concurrently, under
\* every interleaving of their reads and writes of the shared next/limit
\* counters (also during a rollover), no two calls return the same id and
\* every returned id lies inside a block granted by the authority.
C4_ConcurrentUnique ==
    /\ \A a, b \in conc_rets :
          (a # b /\ a[3] = 0 /\ b[3] = 0) => a[4] # b[4]
    /\ \A a \in conc_rets :
          a[3] = 0 => \E g \in granted : InBlock(a[4], g)

(***************************************************************************)
(* Names.  A C string is the sequence of its characters.                   *)
(***************************************************************************)
STAR == <<"*">>
EMPTY == <<>>
QUOTES == <<"\"", "\"">>
foo == <<"f", "o", "o">>
bob == <<"b", "o", "b">>
alice == <<"a", "l", "i", "c", "e">>
CORP == <<"C", "O", "R", "P">>
starx == <<"*", "x">>

\* #define EMPTY_NAME(name) (*name == 0 || strcmp(name, "\"\"") == 0)
EMPTY_NAME(name) == name = <<>> \/ name = QUOTES

\* *str == '*'
FirstIsStar(str) == Len(str) > 0 /\ str[1] = "*"

IDMAP_SUCCESS == "IDMAP_SUCCESS"
IDMAP_ERR_W2U_NAMERULE == "IDMAP_ERR_W2U_NAMERULE"
IDMAP_ERR_U2W_NAMERULE == "IDMAP_ERR_U2W_NAMERULE"
IDMAP_DIRECTION_BI == "BI"
IDMAP_DIRECTION_W2U == "W2U"
IDMAP_DIRECTION_U2W == "U2W"

(***************************************************************************)
(* get_namerule_order.  namerule_w2u and namerule_u2w are its two halves;  *)
(* each gives the return code of its half and the order it assigned.       *)
(***************************************************************************)
namerule_w2u_denylast(winname, windomain, unixname) ==
    IF winname = NULL \/ unixname = NULL \/ EMPTY_NAME(winname)
    THEN [retcode |-> IDMAP_ERR_W2U_NAMERULE, order |-> 0]
    ELSE IF FirstIsStar(winname) /\ windomain # NULL /\ FirstIsStar(windomain)
    THEN [retcode |-> IDMAP_SUCCESS,
          order |-> IF FirstIsStar(unixname) THEN 8
                    ELSE IF EMPTY_NAME(unixname) THEN 10 ELSE 9]
    ELSE IF FirstIsStar(winname)
    THEN [retcode |-> IDMAP_SUCCESS,
          order |-> IF FirstIsStar(unixname) THEN 5
                    ELSE IF EMPTY_NAME(unixname) THEN 7 ELSE 6]
    ELSE IF windomain # NULL /\ FirstIsStar(windomain)
    THEN IF FirstIsStar(unixname)
         THEN [retcode |-> IDMAP_ERR_W2U_NAMERULE, order |-> 0]
         ELSE [retcode |-> IDMAP_SUCCESS,
               order |-> IF EMPTY_NAME(unixname) THEN 4 ELSE 3]
    ELSE IF FirstIsStar(unixname)
         THEN [retcode |-> IDMAP_ERR_W2U_NAMERULE, order |-> 0]
         ELSE [retcode |-> IDMAP_SUCCESS,
               order |-> IF EMPTY_NAME(unixname) THEN 2 ELSE 1]

\* A variant of namerule_w2u that takes a name mapped to "*" as a name
\* mapped to a name.
namerule_w2u_lax(winname, windomain, unixname) ==
    IF winname = NULL \/ unixname = NULL \/ EMPTY_NAME(winname)
    THEN [retcode |-> IDMAP_ERR_W2U_NAMERULE, order |-> 0]
    ELSE IF FirstIsStar(winname) /\ windomain # NULL /\ FirstIsStar(windomain)
    THEN [retcode |-> IDMAP_SUCCESS,
          order |-> IF FirstIsStar(unixname) THEN 8
                    ELSE IF EMPTY_NAME(unixname) THEN 9 ELSE 10]
    ELSE IF FirstIsStar(winname)
    THEN [retcode |-> IDMAP_SUCCESS,
          order |-> IF FirstIsStar(unixname) THEN 5
                    ELSE IF EMPTY_NAME(unixname) THEN 6 ELSE 7]
    ELSE IF windomain # NULL /\ FirstIsStar(windomain)
    THEN [retcode |-> IDMAP_SUCCESS,
          order |-> IF EMPTY_NAME(unixname) THEN 3 ELSE 4]
    ELSE [retcode |-> IDMAP_SUCCESS,
          order |-> IF EMPTY_NAME(unixname) THEN 1 ELSE 2]

namerule_w2u(winname, windomain, unixname) ==
    IF winname = NULL \/ unixname = NULL \/ EMPTY_NAME(winname)
    THEN [retcode |-> IDMAP_ERR_W2U_NAMERULE, order |-> 0]
    ELSE IF FirstIsStar(winname) /\ windomain # NULL /\ FirstIsStar(windomain)
    THEN [retcode |-> IDMAP_SUCCESS,
          order |-> IF FirstIsStar(unixname) THEN 8
                    ELSE IF EMPTY_NAME(unixname) THEN 9 ELSE 10]
    ELSE IF FirstIsStar(winname)
    THEN [retcode |-> IDMAP_SUCCESS,
          order |-> IF FirstIsStar(unixname) THEN 5
                    ELSE IF EMPTY_NAME(unixname) THEN 6 ELSE 7]
    ELSE IF windomain # NULL /\ FirstIsStar(windomain)
    THEN \* winname == name
         IF FirstIsStar(unixname)
         THEN [retcode |-> IDMAP_ERR_W2U_NAMERULE, order |-> 0]
         ELSE [retcode |-> IDMAP_SUCCESS,
               order |-> IF EMPTY_NAME(unixname) THEN 3 ELSE 4]
    ELSE \* winname == name && windomain == null or name
         IF FirstIsStar(unixname)
         THEN [retcode |-> IDMAP_ERR_W2U_NAMERULE, order |-> 0]
         ELSE [retcode |-> IDMAP_SUCCESS,
               order |-> IF EMPTY_NAME(unixname) THEN 1 ELSE 2]

\* A variant of namerule_u2w in which the last two orders change places.
namerule_u2w_swapped(winname, windomain, unixname) ==
    IF unixname = NULL \/ EMPTY_NAME(unixname)
    THEN [retcode |-> IDMAP_ERR_U2W_NAMERULE, order |-> 0]
    ELSE IF winname = NULL
    THEN [retcode |-> IDMAP_ERR_U2W_NAMERULE, order |-> 0]
    ELSE IF windomain # NULL /\ FirstIsStar(windomain)
    THEN [retcode |-> IDMAP_ERR_U2W_NAMERULE, order |-> 0]
    ELSE IF FirstIsStar(unixname)
    THEN [retcode |-> IDMAP_SUCCESS,
          order |-> IF FirstIsStar(winname) THEN 3
                    ELSE IF EMPTY_NAME(winname) THEN 5 ELSE 4]
    ELSE IF FirstIsStar(winname)
         THEN [retcode |-> IDMAP_ERR_U2W_NAMERULE, order |-> 0]
         ELSE [retcode |-> IDMAP_SUCCESS,
               order |-> IF EMPTY_NAME(winname) THEN 1 ELSE 2]

\* A variant of namerule_u2w that takes the domain "*" with a wildcard unix
\* name.
namerule_u2w_lax(winname, windomain, unixname) ==
    IF unixname = NULL \/ EMPTY_NAME(unixname)
    THEN [retcode |-> IDMAP_ERR_U2W_NAMERULE, order |-> 0]
    ELSE IF winname = NULL
    THEN [retcode |-> IDMAP_ERR_U2W_NAMERULE, order |-> 0]
    ELSE IF windomain # NULL /\ FirstIsStar(windomain)
            /\ ~FirstIsStar(unixname)
    THEN [retcode |-> IDMAP_ERR_U2W_NAMERULE, order |-> 0]
    ELSE IF FirstIsStar(unixname)
    THEN [retcode |-> IDMAP_SUCCESS,
          order |-> IF FirstIsStar(winname) THEN 3
                    ELSE IF EMPTY_NAME(winname) THEN 4 ELSE 5]
    ELSE IF FirstIsStar(winname)
         THEN [retcode |-> IDMAP_ERR_U2W_NAMERULE, order |-> 0]
         ELSE [retcode |-> IDMAP_SUCCESS,
               order |-> IF EMPTY_NAME(winname) THEN 1 ELSE 2]

namerule_u2w(winname, windomain, unixname) ==
    IF unixname = NULL \/ EMPTY_NAME(unixname)
    THEN [retcode |-> IDMAP_ERR_U2W_NAMERULE, order |-> 0]
    ELSE IF winname = NULL
    THEN [retcode |-> IDMAP_ERR_U2W_NAMERULE, order |-> 0]
    ELSE IF windomain # NULL /\ FirstIsStar(windomain)
    THEN [retcode |-> IDMAP_ERR_U2W_NAMERULE, order |-> 0]
    ELSE IF FirstIsStar(unixname)
    THEN [retcode |-> IDMAP_SUCCESS,
          order |-> IF FirstIsStar(winname) THEN 3
                    ELSE IF EMPTY_NAME(winname) THEN 4 ELSE 5]
    ELSE IF FirstIsStar(winname)
         THEN [retcode |-> IDMAP_ERR_U2W_NAMERULE, order |-> 0]
         ELSE [retcode |-> IDMAP_SUCCESS,
               order |-> IF EMPTY_NAME(winname) THEN 1 ELSE 2]

get_namerule_order(winname, windomain, unixname, direction) ==
    LET w == IF direction # IDMAP_DIRECTION_U2W
             THEN namerule_w2u(winname, windomain, unixname)
             ELSE [retcode |-> IDMAP_SUCCESS, order |-> 0]
        u == IF direction # IDMAP_DIRECTION_W2U
             THEN namerule_u2w(winname, windomain, unixname)
             ELSE [retcode |-> IDMAP_SUCCESS, order |-> 0]
    IN  IF w.retcode # IDMAP_SUCCESS
        THEN [retcode |-> w.retcode, w2u_order |-> 0, u2w_order |-> 0]
        ELSE IF u.retcode # IDMAP_SUCCESS
        THEN [retcode |-> u.retcode, w2u_order |-> w.order, u2w_order |-> 0]
        ELSE [retcode |-> IDMAP_SUCCESS, w2u_order |-> w.order,
              u2w_order |-> u.order]

(***************************************************************************)
(* SpecOrder: get_namerule_order applied to one rule.                      *)
(***************************************************************************)
WinNames == {NULL, EMPTY, QUOTES, STAR, starx, foo}
WinDomains == {NULL, EMPTY, STAR, CORP}
UnixNames == {NULL, EMPTY, QUOTES, STAR, starx, bob}
Directions == {IDMAP_DIRECTION_BI, IDMAP_DIRECTION_W2U, IDMAP_DIRECTION_U2W}

InitOrder ==
    /\ FreshWindows /\ NoObservations /\ NoEnv /\ NoThreads /\ NoBatch
    /\ nr_in \in [winname : WinNames, windomain : WinDomains,
                  unixname : UnixNames, direction : Directions]
    /\ nr_out = NoResult
    /\ n2s = NoLookup

ComputeOrder ==
    /\ nr_out = NoResult
    /\ nr_out' = get_namerule_order(nr_in.winname, nr_in.windomain,
                                    nr_in.unixname, nr_in.direction)
    /\ UNCHANGED <<envVars, allocVars, obsVars, concVars, nr_in, n2s, mapVars>>

NextOrder == ComputeOrder

SpecOrder == InitOrder /\ [][NextOrder]_vars

\* The shapes the order tables speak of: a wildcard is the name "*", a deny
\* is the empty destination (stored as the empty string or as ""), a name is
\* any other string that does not begin with '*'; a domain is the default
\* domain (none given) or a named one, or the wildcard "*".
IsWild(str) == str = STAR
IsDeny(str) == str = EMPTY \/ str = QUOTES
IsName(str) == str # NULL /\ ~IsDeny(str) /\ ~FirstIsStar(str)
IsDomain(str) == str = NULL \/ ~FirstIsStar(str)

\* The ten windows-to-unix cases; 0 for a rule that is not one of them.
W2UTable(winname, windomain, unixname) ==
    IF IsName(winname) /\ IsDomain(windomain) /\ IsDeny(unixname) THEN 1
    ELSE IF IsName(winname) /\ IsDomain(windomain) /\ IsName(unixname) THEN 2
    ELSE IF IsName(winname) /\ IsWild(windomain) /\ IsDeny(unixname) THEN 3
    ELSE IF IsName(winname) /\ IsWild(windomain) /\ IsName(unixname) THEN 4
    ELSE IF IsWild(winname) /\ IsDomain(windomain) /\ IsWild(unixname) THEN 5
    ELSE IF IsWild(winname) /\ IsDomain(windomain) /\ IsDeny(unixname) THEN 6
    ELSE IF IsWild(winname) /\ IsDomain(windomain) /\ IsName(unixname) THEN 7
    ELSE IF IsWild(winname) /\ IsWild(windomain) /\ IsWild(unixname) THEN 8
    ELSE IF IsWild(winname) /\ IsWild(windomain) /\ IsDeny(unixname) THEN 9
    ELSE IF IsWild(winname) /\ IsWild(windomain) /\ IsName(unixname) THEN 10
    ELSE 0

\* C10: for direction windows-to-unix or bidirectional, get_namerule_order
\* sets w2u_order as the ten-case table says (and succeeds when the
\* direction is windows-to-unix only); for direction unix-to-windows it
\* leaves w2u_order 0.
C10_W2UOrder ==
    nr_out # NoResult =>
        LET t == W2UTable(nr_in.winname, nr_in.windomain, nr_in.unixname)
        IN  /\ (nr_in.direction # IDMAP_DIRECTION_U2W /\ t # 0)
                  => nr_out.w2u_order = t
            /\ (nr_in.direction = IDMAP_DIRECTION_W2U /\ t # 0)
                  => nr_out.retcode = IDMAP_SUCCESS
            /\ nr_in.direction = IDMAP_DIRECTION_U2W => nr_out.w2u_order = 0

C10_Witness ==
    /\ nr_out.retcode = IDMAP_SUCCESS
    /\ nr_in.direction = IDMAP_DIRECTION_BI
    /\ nr_in.winname = foo /\ nr_in.windomain = CORP /\ nr_in.unixname = bob
    /\ nr_out.w2u_order = 2

\* The five unix-to-windows cases; 0 for a rule that is not one of them.
\* "winname@domain (or winname)" and "*@domain (or *)" name a domain or
\* none, never the domain "*".
U2WTable(winname, windomain, unixname) ==
    IF IsName(unixname) /\ IsDeny(winname) /\ IsDomain(windomain) THEN 1
    ELSE IF IsName(unixname) /\ IsName(winname) /\ IsDomain(windomain) THEN 2
    ELSE IF IsWild(unixname) /\ IsWild(winname) /\ IsDomain(windomain) THEN 3
    ELSE IF IsWild(unixname) /\ IsDeny(winname) /\ IsDomain(windomain) THEN 4
    ELSE IF IsWild(unixname) /\ IsName(winname) /\ IsDomain(windomain) THEN 5
    ELSE 0

\* C11: for direction unix-to-windows or bidirectional, get_namerule_order
\* sets u2w_order as the five-case table says, whatever w2u_order the same
\* rule is given (for a bidirectional rule, once its windows-to-unix half
\* is accepted); for direction windows-to-unix it leaves u2w_order 0.
C11_U2WOrder ==
    nr_out # NoResult =>
        LET t == U2WTable(nr_in.winname, nr_in.windomain, nr_in.unixname)
        IN  /\ (nr_in.direction = IDMAP_DIRECTION_U2W /\ t # 0)
                  => /\ nr_out.retcode = IDMAP_SUCCESS
                     /\ nr_out.u2w_order = t
                     /\ nr_out.w2u_order = 0
            /\ (/\ nr_in.direction = IDMAP_DIRECTION_BI
                /\ nr_out.retcode # IDMAP_ERR_W2U_NAMERULE
                /\ t # 0)
                  => /\ nr_out.retcode = IDMAP_SUCCESS
                     /\ nr_out.u2w_order = t
            /\ nr_in.direction = IDMAP_DIRECTION_W2U => nr_out.u2w_order = 0

C11_Witness ==
    /\ nr_out.retcode = IDMAP_SUCCESS
    /\ nr_in.direction = IDMAP_DIRECTION_BI
    /\ nr_in.winname = STAR /\ nr_in.windomain = CORP
    /\ nr_in.unixname = STAR
    /\ nr_out.w2u_order = 5 /\ nr_out.u2w_order = 3

\* C11 as stated: for direction unix-to-windows or bidirectional, u2w_order
\* is the order of the five-case table, whatever the windows-to-unix half
\* makes of the same rule.
C11_U2WOrderAlways ==
    (/\ nr_out # NoResult
     /\ nr_in.direction # IDMAP_DIRECTION_W2U
     /\ U2WTable(nr_in.winname, nr_in.windomain, nr_in.unixname) # 0) =>
        nr_out.u2w_order
            = U2WTable(nr_in.winname, nr_in.windomain, nr_in.unixname)

\* The rules the windows-to-unix half turns down: no Windows name, no unix
\* name, an empty Windows name, or a Windows name that is no wildcard
\* mapped to a wildcard, whatever the domain.
W2URejected(winname, windomain, unixname) ==
    \/ winname = NULL \/ unixname = NULL
    \/ IsDeny(winname)
    \/ ~FirstIsStar(winname) /\ FirstIsStar(unixname)

\* C12 as the program has it: for direction windows-to-unix or
\* bidirectional, get_namerule_order fails with the windows-to-unix
\* name-rule error exactly for the rules of W2URejected, and gives every
\* other rule one of the ten orders.
C12_W2URejects ==
    (nr_out # NoResult /\ nr_in.direction # IDMAP_DIRECTION_U2W) =>
        IF W2URejected(nr_in.winname, nr_in.windomain, nr_in.unixname)
        THEN nr_out.retcode = IDMAP_ERR_W2U_NAMERULE
        ELSE /\ nr_out.retcode # IDMAP_ERR_W2U_NAMERULE
             /\ nr_out.w2u_order \in 1..10

C12_Witness ==
    /\ nr_out.retcode = IDMAP_ERR_W2U_NAMERULE
    /\ nr_in.direction = IDMAP_DIRECTION_W2U
    /\ nr_in.winname = foo /\ nr_in.windomain = CORP
    /\ nr_in.unixname = STAR

\* C12 as stated: with both names given, the windows-to-unix half fails
\* exactly when the Windows name is empty, or the domain is "*" with a
\* Windows name that is no wildcard and the unix name "*".
C12_W2URejectsListed ==
    (/\ nr_out # NoResult
     /\ nr_in.direction # IDMAP_DIRECTION_U2W
     /\ nr_in.winname # NULL /\ nr_in.unixname # NULL) =>
        (nr_out.retcode = IDMAP_ERR_W2U_NAMERULE
         <=> \/ IsDeny(nr_in.winname)
             \/ /\ nr_in.windomain = STAR
                /\ ~FirstIsStar(nr_in.winname)
                /\ FirstIsStar(nr_in.unixname))

\* The rules the unix-to-windows half turns down: no or an empty unix
\* name, no Windows name, the domain "*", or a unix name that is no
\* wildcard mapped to a wildcard.
U2WRejected(winname, windomain, unixname) ==
    \/ unixname = NULL \/ IsDeny(unixname)
    \/ winname = NULL
    \/ windomain # NULL /\ FirstIsStar(windomain)
    \/ ~FirstIsStar(unixname) /\ FirstIsStar(winname)

\* C13 as the program has it: for direction unix-to-windows, and for a
\* bidirectional rule whose windows-to-unix half is accepted,
\* get_namerule_order fails with the unix-to-windows name-rule error
\* exactly for the rules of U2WRejected, and gives every other rule one of
\* the five orders.
C13_U2WRejects ==
    (/\ nr_out # NoResult
     /\ nr_in.direction # IDMAP_DIRECTION_W2U
     /\ nr_out.retcode # IDMAP_ERR_W2U_NAMERULE) =>
        IF U2WRejected(nr_in.winname, nr_in.windomain, nr_in.unixname)
        THEN nr_out.retcode = IDMAP_ERR_U2W_NAMERULE
        ELSE /\ nr_out.retcode = IDMAP_SUCCESS
             /\ nr_out.u2w_order \in 1..5

C13_Witness ==
    /\ nr_out.retcode = IDMAP_ERR_U2W_NAMERULE
    /\ nr_in.direction = IDMAP_DIRECTION_U2W
    /\ nr_in.winname = STAR /\ nr_in.windomain = STAR
    /\ nr_in.unixname = STAR

\* C13 as stated: with both names given, the unix-to-windows half fails
\* exactly when the unix name is empty, or the domain is "*" with a unix
\* name that is no wildcard.
C13_U2WRejectsListed ==
    (/\ nr_out # NoResult
     /\ nr_in.direction = IDMAP_DIRECTION_U2W
     /\ nr_in.winname # NULL /\ nr_in.unixname # NULL) =>
        (nr_out.retcode = IDMAP_ERR_U2W_NAMERULE
         <=> \/ IsDeny(nr_in.unixname)
             \/ /\ nr_in.windomain = STAR
                /\ ~FirstIsStar(nr_in.unixname))

(***************************************************************************)
(* Values of idmapd.h and idmap_prot.h.  An enumerator is the string of    *)
(* its name; the state bits kept in req->direction are the elements of a   *)
(* set, so that _IDMAP_F_DONE (no bit set) is the empty set; the request   *)
(* flags of req->flag are the elements of a set as well.                   *)
(***************************************************************************)
IDMAP_ERR_NOTFOUND == "IDMAP_ERR_NOTFOUND"
IDMAP_ERR_NOMAPPING == "IDMAP_ERR_NOMAPPING"
IDMAP_ERR_INTERNAL == "IDMAP_ERR_INTERNAL"
IDMAP_ERR_MEMORY == "IDMAP_ERR_MEMORY"
IDMAP_ERR_CACHE == "IDMAP_ERR_CACHE"
IDMAP_ERR_SID == "IDMAP_ERR_SID"
IDMAP_ERR_NOTUSER == "IDMAP_ERR_NOTUSER"
IDMAP_ERR_NOTGROUP == "IDMAP_ERR_NOTGROUP"
IDMAP_ERR_NOTSUPPORTED == "IDMAP_ERR_NOTSUPPORTED"
IDMAP_ERR_OTHER == "IDMAP_ERR_OTHER"
IDMAP_ERR_CFG == "IDMAP_ERR_CFG"
IDMAP_ERR_RETRIABLE_NET_ERR == "IDMAP_ERR_RETRIABLE_NET_ERR"
IDMAP_ERR_W2U_NAMERULE_CONFLICT == "IDMAP_ERR_W2U_NAMERULE_CONFLICT"
IDMAP_ERR_U2W_NAMERULE_CONFLICT == "IDMAP_ERR_U2W_NAMERULE_CONFLICT"
IDMAP_NEXT == "IDMAP_NEXT"
IDMAP_DIRECTION_UNDEF == "UNDEF"

IDMAP_NONE == "IDMAP_NONE"
IDMAP_UID == "IDMAP_UID"
IDMAP_GID == "IDMAP_GID"
IDMAP_POSIXID == "IDMAP_POSIXID"
_IDMAP_T_USER == "_IDMAP_T_USER"
_IDMAP_T_GROUP == "_IDMAP_T_GROUP"
_IDMAP_T_UNDEF == "_IDMAP_T_UNDEF"

IDMAP_REQ_FLG_NO_NEW_ID_ALLOC == "IDMAP_REQ_FLG_NO_NEW_ID_ALLOC"
IDMAP_REQ_FLG_NO_NAMESERVICE == "IDMAP_REQ_FLG_NO_NAMESERVICE"

_IDMAP_F_DONE == {}
_IDMAP_F_S2N_CACHE == "_IDMAP_F_S2N_CACHE"
_IDMAP_F_S2N_AD == "_IDMAP_F_S2N_AD"
_IDMAP_F_EXP_EPH_UID == "_IDMAP_F_EXP_EPH_UID"
_IDMAP_F_EXP_EPH_GID == "_IDMAP_F_EXP_EPH_GID"

UID_NOBODY == U32(0, 60001)
GID_NOBODY == U32(0, 60001)
SENTINEL_PID == U32(1, INT32_MAX)
IDMAP_WK_LOCAL_SYSTEM_GID == U32(1, 0)
IDMAP_WK_CREATOR_GROUP_GID == U32(1, 1)
IDMAP_WK_CREATOR_OWNER_UID == U32(1, 0)

\* A NULL column of a table row (the text columns use NULL above).
SQLNULL == "NULL"

\* idmap_stat4prot: the statuses that are private to the daemon leave it as
\* an internal error, every other status is passed on.
idmap_stat4prot(retcode) ==
    IF retcode \in {IDMAP_ERR_MEMORY, IDMAP_ERR_CACHE}
    THEN IDMAP_ERR_INTERNAL ELSE retcode

DO_NOT_ALLOC_NEW_ID_MAPPING(req) == IDMAP_REQ_FLG_NO_NEW_ID_ALLOC \in req.flag
AVOID_NAMESERVICE(req) == IDMAP_REQ_FLG_NO_NAMESERVICE \in req.flag

(***************************************************************************)
(* strcasecmp(a, b) == 0                                                   *)
(***************************************************************************)
UpperCase == <<"A", "B", "C", "D", "E", "F", "G", "H", "I", "J", "K", "L",
               "M", "N", "O", "P", "Q", "R", "S", "T", "U", "V", "W", "X",
               "Y", "Z">>
LowerCase == <<"a", "b", "c", "d", "e", "f", "g", "h", "i", "j", "k", "l",
               "m", "n", "o", "p", "q", "r", "s", "t", "u", "v", "w", "x",
               "y", "z">>
tolower(c) ==
    IF \E k \in DOMAIN UpperCase : UpperCase[k] = c
    THEN LowerCase[CHOOSE k \in DOMAIN UpperCase : UpperCase[k] = c]
    ELSE c
strcaseeq(a, b) ==
    /\ Len(a) = Len(b)
    /\ \A k \in 1..Len(a) : tolower(a[k]) = tolower(b[k])

(***************************************************************************)
(* The configuration (_idmapdstate.cfg->pgcfg) and the collaborators of    *)
(* the resolution: the local name service and the directory.               *)
(***************************************************************************)
mapping_domain == CORP
machine_sid == "S-1-5-21-LOCAL"

carol == <<"c", "a", "r", "o", "l">>
staff == <<"s", "t", "a", "f", "f">>

\* getpwnam_r / getgrnam_r: the accounts of the local name service.
\* An account whose uid lies in the last 1000 ids below 2^31.
big == <<"b", "i", "g">>
BigUid == U32(0, INT32_MAX - 500)
passwd ==
    {[pw_name |-> bob, pw_uid |-> U32(0, 100)],
     [pw_name |-> big, pw_uid |-> BigUid]}
group == {[gr_name |-> staff, gr_gid |-> U32(0, 10)]}

\* The SIDs of the requests.  SidAlice, SidFoo and SidBob are accounts of the
\* directory; the others are well-known SIDs.
SidAlice == [prefix |-> "S-1-5-21-CORP", rid |-> U32(0, 5000)]
SidFoo == [prefix |-> "S-1-5-21-CORP", rid |-> U32(0, 5001)]
SidBob == [prefix |-> "S-1-5-21-CORP", rid |-> U32(0, 5002)]
\* A SID of the domain that the directory does not know.
SidGhost == [prefix |-> "S-1-5-21-CORP", rid |-> U32(0, 5999)]
\* A group of the domain.
SidAdmins == [prefix |-> "S-1-5-21-CORP", rid |-> U32(0, 5003)]
admins == <<"a", "d", "m", "i", "n", "s">>
SidEveryone == [prefix |-> "S-1-1", rid |-> U32(0, 0)]
SidCreatorOwner == [prefix |-> "S-1-3", rid |-> U32(0, 0)]
SidCreatorOwnerServer == [prefix |-> "S-1-3", rid |-> U32(0, 2)]

\* The directory: what the batched SID-to-name lookup answers for a SID.
Directory ==
    {[sid |-> SidAlice, name |-> alice, domain |-> CORP, type |-> _IDMAP_T_USER],
     [sid |-> SidFoo, name |-> foo, domain |-> CORP, type |-> _IDMAP_T_USER],
     [sid |-> SidBob, name |-> bob, domain |-> CORP, type |-> _IDMAP_T_USER],
     [sid |-> SidAdmins, name |-> admins, domain |-> CORP,
      type |-> _IDMAP_T_GROUP]}

(***************************************************************************)
(* The well-known SID table.  The rows kept here are the mapped ones and   *)
(* one unmapped row of each kind (group, user); the rows left out are      *)
(* unmapped groups like Everyone.                                          *)
(***************************************************************************)
WkRow(p, r, n, u, id, d) ==
    [sidprefix |-> p, rid |-> U32(0, r), winname |-> n, is_user |-> u,
     pid |-> id, direction |-> d]

wksids ==
    <<WkRow("S-1-1", 0, <<"E", "v", "e", "r", "y", "o", "n", "e">>, 0,
            SENTINEL_PID, IDMAP_DIRECTION_UNDEF),
      WkRow("S-1-3", 0, <<"C", "r", "e", "a", "t", "o", "r", " ", "O", "w", "n", "e", "r">>, 1,
            IDMAP_WK_CREATOR_OWNER_UID, IDMAP_DIRECTION_BI),
      WkRow("S-1-3", 1, <<"C", "r", "e", "a", "t", "o", "r", " ", "G", "r", "o", "u", "p">>, 0,
            IDMAP_WK_CREATOR_GROUP_GID, IDMAP_DIRECTION_BI),
      WkRow("S-1-3", 2, <<"C", "r", "e", "a", "t", "o", "r", " ", "O", "w", "n", "e", "r", " ", "S", "e", "r", "v", "e", "r">>, 1,
            SENTINEL_PID, IDMAP_DIRECTION_UNDEF),
      WkRow("S-1-5", 7, <<"A", "n", "o", "n", "y", "m", "o", "u", "s", " ", "L", "o", "g", "o", "n">>, 0,
            GID_NOBODY, IDMAP_DIRECTION_BI),
      WkRow("S-1-5", 18, <<"L", "o", "c", "a", "l", " ", "S", "y", "s", "t", "e", "m">>, 0,
            IDMAP_WK_LOCAL_SYSTEM_GID, IDMAP_DIRECTION_BI)>>

\* A variant of the scan below in which an unmapped row ends the
\* resolution of the SID with "no mapping".
RECURSIVE wksids_sid2pid_terminal(_, _, _)
wksids_sid2pid_terminal(i, req, res) ==
    IF i > Len(wksids)
    THEN [retcode |-> IDMAP_ERR_NOTFOUND, res |-> res]
    ELSE LET w == wksids[i]
         IN  IF w.rid = req.id1.rid /\ w.sidprefix = req.id1.prefix
             THEN IF w.pid = SENTINEL_PID
                  THEN [retcode |-> IDMAP_ERR_NOMAPPING, res |-> res]
                  ELSE [retcode |-> IDMAP_SUCCESS,
                        res |-> [res EXCEPT !.id = w.pid,
                                            !.direction = w.direction]]
             ELSE wksids_sid2pid_terminal(i + 1, req, res)

\* The for loop of lookup_wksids_sid2pid from row i on.  The SID prefixes
\* of the requests are spelled as in the table, so strcasecmp on them is
\* equality.
RECURSIVE wksids_sid2pid_from(_, _, _)
wksids_sid2pid_from(i, req, res) ==
    IF i > Len(wksids)
    THEN [retcode |-> IDMAP_ERR_NOTFOUND, res |-> res]
    ELSE LET w == wksids[i]
         IN  IF w.rid = req.id1.rid /\ w.sidprefix = req.id1.prefix
             THEN IF w.pid = SENTINEL_PID
                  THEN \* Not mapped, break
                       [retcode |-> IDMAP_ERR_NOTFOUND, res |-> res]
                  ELSE IF w.direction = IDMAP_DIRECTION_U2W
                  THEN wksids_sid2pid_from(i + 1, req, res)
                  ELSE IF req.id2type = IDMAP_UID
                  THEN IF w.is_user = 0
                       THEN wksids_sid2pid_from(i + 1, req, res)
                       ELSE [retcode |-> IDMAP_SUCCESS,
                             res |-> [res EXCEPT !.id = w.pid,
                                                 !.direction = w.direction]]
                  ELSE IF req.id2type = IDMAP_GID
                  THEN IF w.is_user = 1
                       THEN wksids_sid2pid_from(i + 1, req, res)
                       ELSE [retcode |-> IDMAP_SUCCESS,
                             res |-> [res EXCEPT !.id = w.pid,
                                                 !.direction = w.direction]]
                  ELSE IF req.id2type = IDMAP_POSIXID
                  THEN [retcode |-> IDMAP_SUCCESS,
                        res |-> [res EXCEPT
                                   !.id = w.pid,
                                   !.idtype = IF w.is_user = 0
                                              THEN IDMAP_GID ELSE IDMAP_UID,
                                   !.direction = w.direction]]
                  ELSE [retcode |-> IDMAP_ERR_NOTSUPPORTED, res |-> res]
             ELSE wksids_sid2pid_from(i + 1, req, res)

lookup_wksids_sid2pid_terminal(req, res) ==
    wksids_sid2pid_terminal(1, req, res)

lookup_wksids_sid2pid(req, res) == wksids_sid2pid_from(1, req, res)

lookup_wksids_sid2name(sidprefix, rid) ==
    LET hits == {k \in DOMAIN wksids : /\ wksids[k].sidprefix = sidprefix
                                       /\ wksids[k].rid = rid}
    IN  IF hits = {}
        THEN [retcode |-> IDMAP_ERR_NOTFOUND, name |-> NULL, type |-> _IDMAP_T_UNDEF]
        ELSE LET w == wksids[CHOOSE k \in hits : \A m \in hits : k <= m]
             IN  [retcode |-> IDMAP_SUCCESS, name |-> w.winname,
                  type |-> IF w.is_user # 0 THEN _IDMAP_T_USER ELSE _IDMAP_T_GROUP]

lookup_wksids_name2sid(name) ==
    IF \E k \in DOMAIN wksids : strcaseeq(wksids[k].winname, name)
    THEN IDMAP_SUCCESS ELSE IDMAP_ERR_NOTFOUND

(***************************************************************************)
(* The cache store: the tables idmap_cache and name_cache with their       *)
(* unique indexes.  In a unique index two NULLs never collide.  The       *)
(* integer column w2u holds 1, 0 or NULL; a negative value stands for     *)
(* NULL.                                                                   *)
(***************************************************************************)
CacheRowConflict(r, row) ==
    \/ /\ r.sidprefix = row.sidprefix /\ r.rid = row.rid
       /\ r.w2u >= 0 /\ r.w2u = row.w2u
    \/ /\ r.pid = row.pid /\ r.is_user = row.is_user
       /\ r.u2w # SQLNULL /\ r.u2w = row.u2w

\* INSERT OR IGNORE into idmap_cache, a variant of ReplaceIntoCache
ReplaceIntoCache_ignore(cache, row) ==
    IF \E r \in cache : CacheRowConflict(r, row) THEN cache
    ELSE cache \cup {row}

\* INSERT OR REPLACE into idmap_cache
ReplaceIntoCache(cache, row) ==
    {r \in cache : ~CacheRowConflict(r, row)} \cup {row}

\* INSERT OR REPLACE into name_cache
ReplaceIntoNameCache(ncache, row) ==
    {r \in ncache : ~(r.sidprefix = row.sidprefix /\ r.rid = row.rid)}
        \cup {row}

\* lookup_cache_sid2pid, the switch on the wanted type for the row v
cache_sid2pid_type(req, res, v) ==
    IF req.id2type = IDMAP_UID
    THEN IF v.is_user = 0
         THEN [retcode |-> IDMAP_ERR_NOTUSER, res |-> res]
         ELSE [retcode |-> IDMAP_SUCCESS, res |-> [res EXCEPT !.id = v.pid]]
    ELSE IF req.id2type = IDMAP_GID
    THEN IF v.is_user # 0
         THEN [retcode |-> IDMAP_ERR_NOTGROUP, res |-> res]
         ELSE [retcode |-> IDMAP_SUCCESS, res |-> [res EXCEPT !.id = v.pid]]
    ELSE IF req.id2type = IDMAP_POSIXID
    THEN [retcode |-> IDMAP_SUCCESS,
          res |-> [res EXCEPT !.id = v.pid,
                              !.idtype = IF v.is_user # 0 THEN IDMAP_UID
                                                          ELSE IDMAP_GID]]
    ELSE [retcode |-> IDMAP_ERR_NOTSUPPORTED, res |-> res]

\* lookup_cache_sid2pid, the epilogue at out, t being what the switch gave
cache_sid2pid_out(req, v, t) ==
    IF t.retcode = IDMAP_SUCCESS
    THEN [retcode |-> IDMAP_SUCCESS,
          req |-> [req EXCEPT !.id2name =
                     IF v.unixname # NULL THEN v.unixname ELSE @],
          res |-> [t.res EXCEPT !.direction =
                     IF v.u2w # SQLNULL /\ v.u2w # "0"
                     THEN IDMAP_DIRECTION_BI ELSE IDMAP_DIRECTION_W2U]]
    ELSE [retcode |-> t.retcode, req |-> req, res |-> t.res]

\* A variant of cache_sid2pid_row that drops an expired ephemeral id.
cache_sid2pid_row_drop(req, res, v, curtime) ==
    IF /\ ~DO_NOT_ALLOC_NEW_ID_MAPPING(req)
       /\ ~AVOID_NAMESERVICE(req)
       /\ IS_EPHEMERAL(v.pid)
       /\ v.expiration # 0 /\ v.expiration <= curtime
    THEN [retcode |-> IDMAP_ERR_NOTFOUND, req |-> req, res |-> res]
    ELSE cache_sid2pid_out(req, v, cache_sid2pid_type(req, res, v))

\* lookup_cache_sid2pid once the SELECT has given the row v
cache_sid2pid_row(req, res, v, curtime) ==
    IF /\ ~DO_NOT_ALLOC_NEW_ID_MAPPING(req)
       /\ ~AVOID_NAMESERVICE(req)
       /\ IS_EPHEMERAL(v.pid)
       /\ v.expiration # 0 /\ v.expiration <= curtime
    THEN \* Store the ephemeral pid
         [retcode |-> IDMAP_ERR_NOTFOUND,
          req |-> [req EXCEPT !.direction = @ \cup
                      {IF v.is_user # 0 THEN _IDMAP_F_EXP_EPH_UID
                                        ELSE _IDMAP_F_EXP_EPH_GID}],
          res |-> [res EXCEPT
                      !.id = v.pid,
                      !.idtype = IF v.is_user # 0 THEN IDMAP_UID
                                                  ELSE IDMAP_GID,
                      !.direction = IDMAP_DIRECTION_BI]]
    ELSE cache_sid2pid_out(req, v, cache_sid2pid_type(req, res, v))

lookup_cache_sid2pid(cache, req, res, curtime) ==
    LET rows == {r \in cache :
                    /\ r.sidprefix = req.id1.prefix
                    /\ r.rid = req.id1.rid
                    /\ r.w2u = 1
                    /\ \/ IS_EPHEMERAL(r.pid)
                       \/ r.expiration = 0
                       \/ r.expiration > curtime}
    IN  IF rows = {}
        THEN [retcode |-> IDMAP_ERR_NOTFOUND, req |-> req, res |-> res]
        ELSE cache_sid2pid_row(req, res, CHOOSE r \in rows : TRUE, curtime)

lookup_cache_sid2name(ncache, sidprefix, rid, curtime) ==
    LET rows == {r \in ncache :
                    /\ r.sidprefix = sidprefix /\ r.rid = rid
                    /\ (r.expiration = 0 \/ r.expiration > curtime)}
    IN  IF rows = {}
        THEN [retcode |-> IDMAP_ERR_NOTFOUND, name |-> NULL,
              domain |-> NULL, type |-> _IDMAP_T_UNDEF]
        ELSE [retcode |-> IDMAP_SUCCESS,
              name |-> (CHOOSE r \in rows : TRUE).name,
              domain |-> (CHOOSE r \in rows : TRUE).domain,
              type |-> (CHOOSE r \in rows : TRUE).type]

verify_type(idtype, type, res) ==
    IF idtype = IDMAP_UID
    THEN IF type # _IDMAP_T_USER
         THEN [retcode |-> IDMAP_ERR_NOTUSER, res |-> res]
         ELSE [retcode |-> IDMAP_SUCCESS,
               res |-> [res EXCEPT !.idtype = IDMAP_UID]]
    ELSE IF idtype = IDMAP_GID
    THEN IF type # _IDMAP_T_GROUP
         THEN [retcode |-> IDMAP_ERR_NOTGROUP, res |-> res]
         ELSE [retcode |-> IDMAP_SUCCESS,
               res |-> [res EXCEPT !.idtype = IDMAP_GID]]
    ELSE IF idtype = IDMAP_POSIXID
    THEN IF type = _IDMAP_T_USER
         THEN [retcode |-> IDMAP_SUCCESS,
               res |-> [res EXCEPT !.idtype = IDMAP_UID]]
         ELSE IF type = _IDMAP_T_GROUP
         THEN [retcode |-> IDMAP_SUCCESS,
               res |-> [res EXCEPT !.idtype = IDMAP_GID]]
         ELSE [retcode |-> IDMAP_ERR_SID, res |-> res]
    ELSE [retcode |-> IDMAP_ERR_NOTSUPPORTED, res |-> res]

\* lookup_local_sid2name, the epilogue at out: l is what the lookups gave,
\* v what verify_type made of it
local_sid2name_out(req, res, l, v) ==
    IF l.retcode = IDMAP_SUCCESS
    THEN [retcode |-> v.retcode,
          req |-> [req EXCEPT
                     !.id1name = IF l.name # NULL THEN l.name ELSE @,
                     !.id1domain = IF l.domain # NULL THEN l.domain ELSE @],
          res |-> v.res]
    ELSE [retcode |-> l.retcode, req |-> req, res |-> res]

\* lookup_local_sid2name once the well-known table has answered wk
local_sid2name_cache(ncache, req, curtime, wk) ==
    IF wk.retcode # IDMAP_ERR_NOTFOUND
    THEN [retcode |-> wk.retcode, name |-> wk.name, domain |-> NULL,
          type |-> wk.type]
    ELSE lookup_cache_sid2name(ncache, req.id1.prefix, req.id1.rid, curtime)

local_sid2name_verify(req, res, l) ==
    local_sid2name_out(req, res, l, verify_type(req.id2type, l.type, res))

lookup_local_sid2name(ncache, req, res, curtime) ==
    local_sid2name_verify(req, res,
        local_sid2name_cache(ncache, req, curtime,
            lookup_wksids_sid2name(req.id1.prefix, req.id1.rid)))

(***************************************************************************)
(* sid2pid_first_pass, from its last stage back to its first.              *)
(***************************************************************************)
FirstPassOut(retcode, state, req, res) ==
    [retcode |-> retcode, state |-> state, req |-> req,
     res |-> [res EXCEPT !.retcode = idmap_stat4prot(retcode)]]

\* A first pass that marks an item for the directory without counting it.
first_pass_local_uncounted(state, l) ==
    IF l.retcode = IDMAP_SUCCESS
    THEN FirstPassOut(IDMAP_SUCCESS, state,
            [l.req EXCEPT !.direction = @ \cup {_IDMAP_F_S2N_CACHE}], l.res)
    ELSE IF l.retcode = IDMAP_ERR_NOTFOUND
    THEN FirstPassOut(IDMAP_SUCCESS, state,
            [l.req EXCEPT !.direction = @ \cup {_IDMAP_F_S2N_AD}], l.res)
    ELSE FirstPassOut(l.retcode, state, l.req, l.res)

\* ... after lookup_local_sid2name has answered l
first_pass_local(state, l) ==
    IF l.retcode = IDMAP_SUCCESS
    THEN FirstPassOut(IDMAP_SUCCESS, state,
            [l.req EXCEPT !.direction = @ \cup {_IDMAP_F_S2N_CACHE}], l.res)
    ELSE IF l.retcode = IDMAP_ERR_NOTFOUND
    THEN \* Batch sid to name AD lookup request
         FirstPassOut(IDMAP_SUCCESS,
            [state EXCEPT !.ad_nqueries = @ + 1],
            [l.req EXCEPT !.direction = @ \cup {_IDMAP_F_S2N_AD}], l.res)
    ELSE FirstPassOut(l.retcode, state, l.req, l.res)

\* A first pass that goes on to the name lookups whatever the flags say.
first_pass_cache_unflagged(state, ncache, c, curtime) ==
    IF c.retcode # IDMAP_ERR_NOTFOUND
    THEN FirstPassOut(c.retcode, state, c.req, c.res)
    ELSE IF c.req.id1name # NULL /\ c.req.id1domain # NULL
    THEN FirstPassOut(IDMAP_SUCCESS, [state EXCEPT !.sid2pid_done = FALSE],
            [c.req EXCEPT !.direction = @ \cup {_IDMAP_F_S2N_CACHE}], c.res)
    ELSE first_pass_local([state EXCEPT !.sid2pid_done = FALSE],
            lookup_local_sid2name(ncache, c.req, c.res, curtime))

\* ... after the cache lookup has answered c
first_pass_cache(state, ncache, c, curtime) ==
    IF c.retcode # IDMAP_ERR_NOTFOUND
    THEN FirstPassOut(c.retcode, state, c.req, c.res)
    ELSE IF DO_NOT_ALLOC_NEW_ID_MAPPING(c.req) \/ AVOID_NAMESERVICE(c.req)
    THEN FirstPassOut(IDMAP_ERR_NOTFOUND, state, c.req,
                      [c.res EXCEPT !.id = SENTINEL_PID])
    ELSE IF c.req.id1name # NULL /\ c.req.id1domain # NULL
    THEN FirstPassOut(IDMAP_SUCCESS, [state EXCEPT !.sid2pid_done = FALSE],
            [c.req EXCEPT !.direction = @ \cup {_IDMAP_F_S2N_CACHE}], c.res)
    ELSE first_pass_local([state EXCEPT !.sid2pid_done = FALSE],
            lookup_local_sid2name(ncache, c.req, c.res, curtime))

\* ... after the well-known table has answered wk
first_pass_wk(state, cache, ncache, req, wk, curtime) ==
    IF wk.retcode # IDMAP_ERR_NOTFOUND
    THEN FirstPassOut(wk.retcode, state, req, wk.res)
    ELSE first_pass_cache(state, ncache,
            lookup_cache_sid2pid(cache, req, wk.res, curtime), curtime)

\* ... req being the request with req->direction = _IDMAP_F_DONE
first_pass_start(state, cache, ncache, req, res, curtime) ==
    IF req.id1.prefix = SQLNULL
    THEN FirstPassOut(IDMAP_ERR_SID, state, req, res)
    ELSE first_pass_wk(state, cache, ncache, req,
            lookup_wksids_sid2pid(req,
                [res EXCEPT !.idtype = req.id2type, !.id = UID_NOBODY]),
            curtime)

sid2pid_first_pass(state, cache, ncache, req, res, curtime) ==
    first_pass_start(state, cache, ncache,
                     [req EXCEPT !.direction = _IDMAP_F_DONE], res, curtime)

(***************************************************************************)
(* The directory round between the passes.                                 *)
(***************************************************************************)
\* idmap_sid2name_batch_add1 and idmap_lookup_batch_end for one item: the
\* directory fills in the name, the domain and the type of the SID.
sid2name_batch_add1(req, res) ==
    IF \E d \in Directory : d.sid = req.id1
    THEN LET d == CHOOSE e \in Directory : e.sid = req.id1
         IN  [req |-> [req EXCEPT !.id1name = d.name, !.id1domain = d.domain],
              res |-> [res EXCEPT !.idtype = d.type,
                                  !.retcode = IDMAP_SUCCESS]]
    ELSE [req |-> req, res |-> [res EXCEPT !.retcode = IDMAP_ERR_NOTFOUND]]

\* What the directory does in one attempt: the batch cannot be started
\* (start_fail), the enqueue of item at fails with a transient network
\* error (add_retry) or with another error (add_err), the end of the batch
\* fails with a transient network error after the items of got were
\* answered (end_retry) or with another error (end_err), or all goes well.
NetOutcome(kind, at, got) == [kind |-> kind, at |-> at, got |-> got]

\* The item holds a SID (its id1 has a prefix and a rid).
IS_BATCH_SID(b, i) == "prefix" \in DOMAIN b[i].id1

\* A variant of win_batch_wanted that takes every marked item on a retry.
win_batch_wanted_all(state, b, result0) ==
    {k \in DOMAIN b : _IDMAP_F_S2N_AD \in b[k].direction}

\* The items of this attempt: marked for the directory and, on a retry,
\* still carrying the retriable error.  Only an item holding a SID is
\* taken (req->id1.idtype == IDMAP_SID).
win_batch_wanted(state, b, result0) ==
    {k \in DOMAIN b :
        /\ IS_BATCH_SID(b, k)
        /\ _IDMAP_F_S2N_AD \in b[k].direction
        /\ \/ state.ad.retries = 0
           \/ result0[k].retcode = IDMAP_ERR_RETRIABLE_NET_ERR}

NetKinds ==
    {"ok", "start_fail", "add_retry", "add_err", "end_retry", "end_err"}

\* The directory is reachable.
NetUp == {"ok"}

\* What a directory that shows the outcomes of kinds can do in the attempt
\* at hand.
NetOutcomes(kinds, state, b, result0) ==
    IF state.ad_nqueries = 0 \/ win_batch_wanted(state, b, result0) = {}
    THEN {NetOutcome("ok", 0, {})}
    ELSE {NetOutcome(kind, 0, {}) :
             kind \in kinds \cap {"ok", "start_fail", "end_err"}}
         \cup {NetOutcome(kind, k, {}) :
                  kind \in kinds \cap {"add_retry", "add_err"},
                  k \in win_batch_wanted(state, b, result0)}
         \cup {NetOutcome(kind, 0, got) :
                  kind \in kinds \cap {"end_retry"},
                  got \in SUBSET win_batch_wanted(state, b, result0)}

\* The items the loop reaches before it is left, and those of them whose
\* enqueue went well.
win_batch_called(Q, o) ==
    IF o.kind \in {"add_retry", "add_err"} THEN {k \in Q : k <= o.at} ELSE Q

win_batch_enqueued(Q, o) ==
    IF o.kind \in {"add_retry", "add_err"} THEN {k \in Q : k < o.at} ELSE Q

\* retcode after the loop and the end or release of the batch; when the
\* loop made no call it is what the attempt before left.
win_batch_retcode(state, Q, o) ==
    IF Q = {} THEN state.ad.retcode
    ELSE IF o.kind \in {"add_retry", "end_retry"}
    THEN IDMAP_ERR_RETRIABLE_NET_ERR
    ELSE IF o.kind \in {"add_err", "end_err"} THEN IDMAP_ERR_INTERNAL
    ELSE IDMAP_SUCCESS

win_batch_ended(Q, o) ==
    Q # {} /\ o.kind \in {"ok", "end_retry", "end_err"}

win_batch_answered(Q, o) ==
    IF o.kind = "ok" THEN Q ELSE IF o.kind = "end_retry" THEN o.got ELSE {}

win_batch_item(state, b, result0, o, Q, k) ==
    IF k \in win_batch_answered(Q, o)
    THEN sid2name_batch_add1(b[k], result0[k])
    ELSE IF k \in win_batch_called(Q, o) /\ state.ad.retries = 0
    THEN [req |-> b[k],
          res |-> [result0[k] EXCEPT
                      !.retcode = IDMAP_ERR_RETRIABLE_NET_ERR]]
    ELSE [req |-> b[k], res |-> result0[k]]

win_batch_again(state, rc) ==
    rc = IDMAP_ERR_RETRIABLE_NET_ERR /\ state.ad.retries < 2

win_batch_attempt(state, b, result0, o, Q, rc) ==
    [retcode |-> rc,
     again |-> win_batch_again(state, rc),
     state |-> [state EXCEPT
                  !.ad = [retries |-> IF rc = IDMAP_ERR_RETRIABLE_NET_ERR
                                      THEN @.retries + 1 ELSE @.retries,
                          retcode |-> rc,
                          attempts |-> @.attempts + 1,
                          enq |-> win_batch_enqueued(Q, o),
                          sent |-> IF win_batch_ended(Q, o)
                                   THEN @.sent \cup win_batch_enqueued(Q, o)
                                   ELSE @.sent,
                          winrc |-> IF win_batch_again(state, rc)
                                    THEN "none" ELSE rc]],
     batch |-> [k \in DOMAIN b |->
                   win_batch_item(state, b, result0, o, Q, k).req],
     result |-> [k \in DOMAIN b |->
                   win_batch_item(state, b, result0, o, Q, k).res]]

\* One attempt of lookup_win_batch_sid2name, from retry: to the goto retry
\* or the return.
lookup_win_batch_sid2name(state, b, result0, o) ==
    IF state.ad_nqueries = 0
    THEN [retcode |-> IDMAP_SUCCESS, again |-> FALSE,
          state |-> [state EXCEPT !.ad.winrc = IDMAP_SUCCESS],
          batch |-> b, result |-> result0]
    ELSE IF o.kind = "start_fail"
    THEN [retcode |-> IDMAP_ERR_INTERNAL, again |-> FALSE,
          state |-> [state EXCEPT !.ad.attempts = @ + 1, !.ad.enq = {},
                                  !.ad.winrc = IDMAP_ERR_INTERNAL],
          batch |-> b, result |-> result0]
    ELSE win_batch_attempt(state, b, result0, o,
             win_batch_wanted(state, b, result0),
             win_batch_retcode(state, win_batch_wanted(state, b, result0),
                               o))

(***************************************************************************)
(* Name-based mapping                                                      *)
(***************************************************************************)
ns_lookup_byname(is_user, name, res) ==
    IF is_user # 0
    THEN IF \E p \in passwd : p.pw_name = name
         THEN LET p == CHOOSE q \in passwd : q.pw_name = name
              IN  [retcode |-> IDMAP_SUCCESS,
                   res |-> [res EXCEPT !.id = p.pw_uid, !.idtype = IDMAP_UID]]
         ELSE [retcode |-> IDMAP_ERR_NOTFOUND, res |-> res]
    ELSE IF \E g \in group : g.gr_name = name
         THEN LET g == CHOOSE q \in group : q.gr_name = name
              IN  [retcode |-> IDMAP_SUCCESS,
                   res |-> [res EXCEPT !.id = g.gr_gid, !.idtype = IDMAP_GID]]
         ELSE [retcode |-> IDMAP_ERR_NOTFOUND, res |-> res]

\* The rows of the SELECT of name_based_mapping_sid2pid.
NameruleRows(db, req, res) ==
    LET winname == req.id1name
        windomain == IF req.id1domain = NULL THEN EMPTY ELSE req.id1domain
        i == /\ req.id1domain # NULL
             /\ mapping_domain # NULL
             /\ strcaseeq(mapping_domain, windomain)
        is_user == IF res.idtype = IDMAP_UID THEN 1 ELSE 0
    IN  {r \in db :
            /\ r.w2u_order > 0
            /\ r.is_user = is_user
            /\ (r.winname = winname \/ r.winname = STAR)
            /\ \/ r.windomain = windomain
               \/ r.windomain = STAR
               \/ i /\ (r.windomain = NULL \/ r.windomain = EMPTY)}

\* ORDER BY w2u_order ASC: the orders in which the rows can come.
SortedRows(S) ==
    {f \in [1..Cardinality(S) -> S] :
        /\ \A a, b \in DOMAIN f : a # b => f[a] # f[b]
        /\ \A a, b \in DOMAIN f : a < b => f[a].w2u_order <= f[b].w2u_order}

\* A variant of the loop below in which a wildcard row whose name is
\* missing ends the lookup like a literal row.
RECURSIVE namerule_step_nofallback(_, _, _, _)
namerule_step_nofallback(rows, k, req, res) ==
    IF k > Len(rows)
    THEN [retcode |-> IDMAP_ERR_NOTFOUND, req |-> req, res |-> res]
    ELSE
    LET v == rows[k]
    IN  IF EMPTY_NAME(v.unixname)
        THEN [retcode |-> IDMAP_ERR_NOMAPPING, req |-> req, res |-> res]
        ELSE
        LET unixname == IF v.unixname[1] = "*" THEN req.id1name
                                               ELSE v.unixname
            ns == ns_lookup_byname(IF res.idtype = IDMAP_UID THEN 1 ELSE 0,
                                   unixname, res)
        IN  IF ns.retcode = IDMAP_ERR_NOTFOUND
            THEN [retcode |-> IDMAP_ERR_NOMAPPING, req |-> req, res |-> res]
            ELSE [retcode |-> IDMAP_SUCCESS,
                  req |-> [req EXCEPT !.id2name = unixname],
                  res |-> [ns.res EXCEPT !.direction =
                             IF v.u2w_order # 0 THEN IDMAP_DIRECTION_BI
                                                ELSE IDMAP_DIRECTION_W2U]]

\* A variant of the loop below in which a deny row is passed over.
RECURSIVE namerule_step_nodeny(_, _, _, _)
namerule_step_nodeny(rows, k, req, res) ==
    IF k > Len(rows)
    THEN [retcode |-> IDMAP_ERR_NOTFOUND, req |-> req, res |-> res]
    ELSE
    LET v == rows[k]
    IN  IF EMPTY_NAME(v.unixname)
        THEN namerule_step_nodeny(rows, k + 1, req, res)
        ELSE
        LET wild == v.unixname[1] = "*"
            unixname == IF wild THEN req.id1name ELSE v.unixname
            ns == ns_lookup_byname(IF res.idtype = IDMAP_UID THEN 1 ELSE 0,
                                   unixname, res)
        IN  IF ns.retcode = IDMAP_ERR_NOTFOUND
            THEN IF wild
                 THEN namerule_step_nodeny(rows, k + 1, req, res)
                 ELSE [retcode |-> IDMAP_ERR_NOMAPPING, req |-> req,
                       res |-> res]
            ELSE [retcode |-> IDMAP_SUCCESS,
                  req |-> [req EXCEPT !.id2name = unixname],
                  res |-> [ns.res EXCEPT !.direction =
                             IF v.u2w_order # 0 THEN IDMAP_DIRECTION_BI
                                                ELSE IDMAP_DIRECTION_W2U]]

\* The for (;;) loop of name_based_mapping_sid2pid at row k, with the
\* epilogue at out.
RECURSIVE namerule_step(_, _, _, _)
namerule_step(rows, k, req, res) ==
    IF k > Len(rows)
    THEN \* SQLITE_DONE
         [retcode |-> IDMAP_ERR_NOTFOUND, req |-> req, res |-> res]
    ELSE
    LET v == rows[k]
    IN  IF EMPTY_NAME(v.unixname)
        THEN [retcode |-> IDMAP_ERR_NOMAPPING, req |-> req, res |-> res]
        ELSE
        LET wild == v.unixname[1] = "*"
            unixname == IF wild THEN req.id1name ELSE v.unixname
            ns == ns_lookup_byname(IF res.idtype = IDMAP_UID THEN 1 ELSE 0,
                                   unixname, res)
        IN  IF ns.retcode = IDMAP_ERR_NOTFOUND
            THEN IF wild
                 THEN \* Case 4
                      namerule_step(rows, k + 1, req, res)
                 ELSE \* Case 3
                      [retcode |-> IDMAP_ERR_NOMAPPING, req |-> req,
                       res |-> res]
            ELSE [retcode |-> IDMAP_SUCCESS,
                  req |-> [req EXCEPT !.id2name = unixname],
                  res |-> [ns.res EXCEPT !.direction =
                             IF v.u2w_order # 0 THEN IDMAP_DIRECTION_BI
                                                ELSE IDMAP_DIRECTION_W2U]]

\* ord is the rule table in an order that ORDER BY w2u_order ASC allows;
\* the rows of the SELECT are its rows that match, in that order.
NameruleSelect(ord, req, res) ==
    SelectSeq(ord, LAMBDA r : r \in NameruleRows({ord[k] : k \in DOMAIN ord}, req, res))

name_based_mapping_nodeny(ord, req, res) ==
    namerule_step_nodeny(NameruleSelect(ord, req, res), 1, req, res)

name_based_mapping_nofallback(ord, req, res) ==
    namerule_step_nofallback(NameruleSelect(ord, req, res), 1, req, res)

name_based_mapping_sid2pid(ord, req, res) ==
    namerule_step(NameruleSelect(ord, req, res), 1, req, res)

(***************************************************************************)
(* The per-batch SID history.  gethash is a pure function of the SID and   *)
(* the table size whose values are not computed here: state.hash holds     *)
(* the value it has for each SID of the batch.                             *)
(***************************************************************************)
gethash(state, sid) == state.hash[sid]

RECURSIVE sid_history_walk(_, _, _, _, _)
sid_history_walk(next, state, b, result0, sid) ==
    IF next = state.sid_history_size
    THEN [found |-> FALSE, pid |-> UID_INVALID]
    ELSE
    LET key == state.sid_history[next].key
    IN  IF key = state.sid_history_size
        THEN [found |-> FALSE, pid |-> UID_INVALID]
        ELSE IF b[key + 1].id1 = sid
        THEN [found |-> TRUE, pid |-> result0[key + 1].id]
        ELSE sid_history_walk(state.sid_history[next].next, state, b,
                              result0, sid)

\* A variant of get_from_sid_history that never consults the table.
get_from_sid_history_miss(state, b, result0, sid) ==
    [found |-> FALSE, pid |-> UID_INVALID]

get_from_sid_history(state, b, result0, sid) ==
    sid_history_walk(gethash(state, sid), state, b, result0, sid)

RECURSIVE sid_history_probe(_, _)
sid_history_probe(state, next) ==
    IF state.sid_history[next].key # state.sid_history_size
    THEN sid_history_probe(state, (next + 1) % state.sid_history_size)
    ELSE next

\* A variant of add_to_sid_history that does not chain an entry that went
\* to another slot than its own.
add_to_sid_history_unchained(state, sid) ==
    [state EXCEPT !.sid_history[sid_history_probe(state, gethash(state, sid))].key = state.curpos]

add_to_sid_history(state, sid) ==
    LET hash == gethash(state, sid)
        next == sid_history_probe(state, hash)
        h1 == [state.sid_history EXCEPT ![next].key = state.curpos]
    IN  IF hash = next
        THEN [state EXCEPT !.sid_history = h1]
        ELSE LET h2 == [h1 EXCEPT ![next].next = h1[hash].next]
             IN  [state EXCEPT !.sid_history =
                                   [h2 EXCEPT ![hash].next = next]]

(***************************************************************************)
(* dynamic_ephemeral_mapping.  alloc is the value of the process-wide      *)
(* counters, call the call of the allocator that was made (NoAlloc if      *)
(* none), path the branch that was taken.                                  *)
(***************************************************************************)
NoAlloc == [err |-> 0, out |-> UID_INVALID, asked |-> FALSE, made |-> FALSE,
            kind |-> "none"]

\* A variant of eph_alloc_out that registers the SID in the history whether
\* or not the allocator gave an id.
eph_alloc_out_register(state, req, res, alloc1, r, kind) ==
    [retcode |-> IF r.err # 0 THEN IDMAP_ERR_INTERNAL ELSE IDMAP_SUCCESS,
     res |-> IF r.err # 0 THEN res ELSE [res EXCEPT !.id = r.out],
     state |-> add_to_sid_history(state, req.id1),
     alloc |-> alloc1,
     call |-> [err |-> r.err, out |-> r.out, asked |-> r.asked,
               made |-> TRUE, kind |-> kind],
     path |-> IF r.err # 0 THEN "eph_fail" ELSE "eph_mint"]

\* ... after the allocator has answered r; alloc1 is the counters it left
eph_alloc_out(state, req, res, alloc1, r, kind) ==
    IF r.err # 0
    THEN [retcode |-> IDMAP_ERR_INTERNAL, res |-> res, state |-> state,
          alloc |-> alloc1,
          call |-> [err |-> r.err, out |-> r.out, asked |-> r.asked,
                    made |-> TRUE, kind |-> kind],
          path |-> "eph_fail"]
    ELSE [retcode |-> IDMAP_SUCCESS, res |-> [res EXCEPT !.id = r.out],
          state |-> add_to_sid_history(state, req.id1),
          alloc |-> alloc1,
          call |-> [err |-> r.err, out |-> r.out, asked |-> r.asked,
                    made |-> TRUE, kind |-> kind],
          path |-> "eph_mint"]

eph_alloc_uid(state, req, res, alloc, r) ==
    eph_alloc_out(state, req, res,
        [alloc EXCEPT !.next_uid = r.next, !.limit_uid = r.limit,
                      !.auth_uid = r.auth], r, "uid")

eph_alloc_gid(state, req, res, alloc, r) ==
    eph_alloc_out(state, req, res,
        [alloc EXCEPT !.next_gid = r.next, !.limit_gid = r.limit,
                      !.auth_gid = r.auth], r, "gid")

\* ... after the SID history has answered h
eph_history(state, req, res, alloc, grant, h) ==
    IF h.found
    THEN [retcode |-> IDMAP_SUCCESS, res |-> [res EXCEPT !.id = h.pid],
          state |-> state, alloc |-> alloc, call |-> NoAlloc,
          path |-> "eph_hist"]
    ELSE IF res.idtype = IDMAP_UID
    THEN eph_alloc_uid(state, req, res, alloc,
            get_next_eph_uid(alloc.next_uid, alloc.limit_uid,
                             alloc.auth_uid, grant))
    ELSE eph_alloc_gid(state, req, res, alloc,
            get_next_eph_gid(alloc.next_gid, alloc.limit_gid,
                             alloc.auth_gid, grant))

\* ... res being the result with res->direction = IDMAP_DIRECTION_BI
eph_start(state, b, result0, req, res, alloc, grant) ==
    IF IS_EPHEMERAL(res.id)
    THEN [retcode |-> IDMAP_SUCCESS, res |-> res, state |-> state,
          alloc |-> alloc, call |-> NoAlloc, path |-> "eph_stash"]
    ELSE eph_history(state, req, res, alloc, grant,
            get_from_sid_history(state, b, result0, req.id1))

dynamic_ephemeral_mapping(state, b, result0, req, res, alloc, grant) ==
    eph_start(state, b, result0, req,
              [res EXCEPT !.direction = IDMAP_DIRECTION_BI], alloc, grant)

\* A decoding that forgets the 1000 rids skipped for users.
lookup_localsid2pid_unshifted(req, res) ==
    LET rid == req.id1.rid
    IN  IF req.id1.prefix = machine_sid
        THEN IF req.id2type = IDMAP_UID
             THEN IF rid.hi > 0
                  THEN [retcode |-> IDMAP_ERR_NOTUSER, res |-> res]
                  ELSE IF rid.lo < LOCALRID_MIN
                  THEN [retcode |-> IDMAP_ERR_NOTFOUND, res |-> res]
                  ELSE [retcode |-> IDMAP_SUCCESS,
                        res |-> [res EXCEPT
                                   !.id = U32(0, rid.lo),
                                   !.idtype = IDMAP_UID]]
             ELSE IF req.id2type = IDMAP_GID
             THEN IF rid.hi = 0
                  THEN [retcode |-> IDMAP_ERR_NOTGROUP, res |-> res]
                  ELSE [retcode |-> IDMAP_SUCCESS,
                        res |-> [res EXCEPT !.id = U32(0, rid.lo),
                                            !.idtype = IDMAP_GID]]
             ELSE IF req.id2type = IDMAP_POSIXID
             THEN IF rid.hi > 0
                  THEN [retcode |-> IDMAP_SUCCESS,
                        res |-> [res EXCEPT !.id = U32(0, rid.lo),
                                            !.idtype = IDMAP_GID]]
                  ELSE IF rid.lo < LOCALRID_MIN
                  THEN [retcode |-> IDMAP_ERR_NOTFOUND, res |-> res]
                  ELSE [retcode |-> IDMAP_SUCCESS,
                        res |-> [res EXCEPT
                                   !.id = U32(0, rid.lo),
                                   !.idtype = IDMAP_UID]]
             ELSE [retcode |-> IDMAP_ERR_NOTSUPPORTED, res |-> res]
        ELSE [retcode |-> IDMAP_ERR_NOTFOUND, res |-> res]

lookup_localsid2pid(req, res) ==
    LET rid == req.id1.rid
    IN  IF req.id1.prefix = machine_sid
        THEN IF req.id2type = IDMAP_UID
             THEN IF rid.hi > 0
                  THEN [retcode |-> IDMAP_ERR_NOTUSER, res |-> res]
                  ELSE IF rid.lo < LOCALRID_MIN
                  THEN [retcode |-> IDMAP_ERR_NOTFOUND, res |-> res]
                  ELSE [retcode |-> IDMAP_SUCCESS,
                        res |-> [res EXCEPT
                                   !.id = U32(0, rid.lo - LOCALRID_MIN),
                                   !.idtype = IDMAP_UID]]
             ELSE IF req.id2type = IDMAP_GID
             THEN IF rid.hi = 0
                  THEN [retcode |-> IDMAP_ERR_NOTGROUP, res |-> res]
                  ELSE [retcode |-> IDMAP_SUCCESS,
                        res |-> [res EXCEPT !.id = U32(0, rid.lo),
                                            !.idtype = IDMAP_GID]]
             ELSE IF req.id2type = IDMAP_POSIXID
             THEN IF rid.hi > 0
                  THEN [retcode |-> IDMAP_SUCCESS,
                        res |-> [res EXCEPT !.id = U32(0, rid.lo),
                                            !.idtype = IDMAP_GID]]
                  ELSE IF rid.lo < LOCALRID_MIN
                  THEN [retcode |-> IDMAP_ERR_NOTFOUND, res |-> res]
                  ELSE [retcode |-> IDMAP_SUCCESS,
                        res |-> [res EXCEPT
                                   !.id = U32(0, rid.lo - LOCALRID_MIN),
                                   !.idtype = IDMAP_UID]]
             ELSE [retcode |-> IDMAP_ERR_NOTSUPPORTED, res |-> res]
        ELSE [retcode |-> IDMAP_ERR_NOTFOUND, res |-> res]

(***************************************************************************)
(* sid2pid_second_pass, from its last stage back to its first.  ord is    *)
(* the rule table in the order the store gives it, grant the answer of    *)
(* the id-space authority should it be asked.                              *)
(***************************************************************************)
SecondPassOut(retcode, state, req, res, alloc, call, path) ==
    [retcode |-> retcode, state |-> state, req |-> req,
     res |-> [res EXCEPT !.retcode = idmap_stat4prot(retcode)],
     alloc |-> alloc, call |-> call, path |-> path]

\* ... the label ephemeral, e being what dynamic_ephemeral_mapping gave
second_pass_ephemeral(req, e) ==
    SecondPassOut(e.retcode,
        IF e.retcode = IDMAP_SUCCESS
        THEN [e.state EXCEPT !.sid2pid_done = FALSE] ELSE e.state,
        req, e.res, e.alloc, e.call, e.path)

\* ... after the name-based mapping has answered n
second_pass_named(state, b, result0, alloc, grant, n) ==
    IF n.retcode = IDMAP_ERR_NOTFOUND
    THEN \* If not found, do ephemeral mapping
         second_pass_ephemeral(n.req,
            dynamic_ephemeral_mapping(state, b, result0, n.req, n.res,
                                      alloc, grant))
    ELSE IF n.retcode # IDMAP_SUCCESS
    THEN SecondPassOut(n.retcode, state, n.req, n.res, alloc, NoAlloc,
                       "name_err")
    ELSE SecondPassOut(IDMAP_SUCCESS, [state EXCEPT !.sid2pid_done = FALSE],
                       n.req, n.res, alloc, NoAlloc, "name")

\* A second pass that takes the directory's answer whatever its type.
second_pass_untyped(state, b, result0, ord, req, alloc, grant, v) ==
    second_pass_named(state, b, result0, alloc, grant,
        name_based_mapping_sid2pid(ord, req,
            [v.res EXCEPT !.idtype = req.id2type]))

\* ... after the type of a directory answer has been verified as v
second_pass_typed(state, b, result0, ord, req, alloc, grant, v) ==
    IF v.retcode # IDMAP_SUCCESS
    THEN SecondPassOut(v.retcode, state, req,
            [v.res EXCEPT !.idtype = req.id2type, !.id = UID_NOBODY],
            alloc, NoAlloc, "type")
    ELSE second_pass_named(state, b, result0, alloc, grant,
            name_based_mapping_sid2pid(ord, req, v.res))

\* ... the previous pass has failed with retcode; res has its type and id
\* reset, l is what lookup_localsid2pid makes of the request
second_pass_failed(state, req, res, alloc, retcode, l) ==
    IF retcode = IDMAP_ERR_NOTFOUND /\ machine_sid # SQLNULL
    THEN IF l.retcode = IDMAP_SUCCESS
         THEN SecondPassOut(IDMAP_SUCCESS,
                 [state EXCEPT !.sid2pid_done = FALSE],
                 [req EXCEPT !.direction = {_IDMAP_F_S2N_CACHE}],
                 l.res, alloc, NoAlloc, "local")
         ELSE SecondPassOut(l.retcode, state, req, l.res, alloc, NoAlloc,
                            "failed")
    ELSE SecondPassOut(retcode, state, req, res, alloc, NoAlloc, "failed")

\* ... retcode being the status from the previous pass
second_pass_status(state, b, result0, ord, req, res, alloc, grant, retcode) ==
    IF retcode # IDMAP_SUCCESS
    THEN second_pass_failed(state, req,
            [res EXCEPT !.idtype = req.id2type, !.id = UID_NOBODY], alloc,
            retcode,
            lookup_localsid2pid(req,
                [res EXCEPT !.idtype = req.id2type, !.id = UID_NOBODY]))
    ELSE second_pass_typed(state, b, result0, ord, req, alloc, grant,
            IF _IDMAP_F_S2N_AD \in req.direction
            THEN verify_type(req.id2type, res.idtype, res)
            ELSE [retcode |-> IDMAP_SUCCESS, res |-> res])

sid2pid_second_pass(state, b, result0, ord, req, res, alloc, grant) ==
    IF req.direction = _IDMAP_F_DONE
    THEN [retcode |-> res.retcode, state |-> state, req |-> req, res |-> res,
          alloc |-> alloc, call |-> NoAlloc, path |-> "first"]
    ELSE second_pass_status(state, b, result0, ord, req, res, alloc, grant,
            IF res.retcode = IDMAP_NEXT THEN IDMAP_SUCCESS ELSE res.retcode)

(***************************************************************************)
(* update_cache_sid2pid                                                    *)
(***************************************************************************)
update_cache_sid2pid(state, cache, ncache, req, res, curtime) ==
    LET unchanged == [retcode |-> IDMAP_SUCCESS, state |-> state,
                      cache |-> cache, ncache |-> ncache, wrote |-> FALSE]
        is_eph_user == IF _IDMAP_F_EXP_EPH_UID \in req.direction THEN 1
                       ELSE IF _IDMAP_F_EXP_EPH_GID \in req.direction THEN 0
                       ELSE -1
        old == {r \in cache : /\ r.sidprefix = req.id1.prefix
                              /\ r.rid = req.id1.rid
                              /\ r.w2u = 1
                              /\ IS_EPHEMERAL(r.pid)
                              /\ r.is_user = is_eph_user}
        retired == {[r EXCEPT !.w2u = 0] : r \in old}
        \* UPDATE idmap_cache SET w2u = 0: refused by the unique index
        \* (sidprefix, rid, w2u) when the SID already has a row with w2u = 0
        clash == \E r \in cache \ old, q \in retired :
                    /\ r.sidprefix = q.sidprefix /\ r.rid = q.rid
                    /\ r.w2u = q.w2u
        supersede == is_eph_user >= 0 /\ ~IS_EPHEMERAL(res.id)
        cache1 == IF supersede THEN (cache \ old) \cup retired ELSE cache
        row == [sidprefix |-> req.id1.prefix, rid |-> req.id1.rid,
                windomain |-> req.id1domain, winname |-> req.id1name,
                pid |-> res.id, unixname |-> req.id2name,
                is_user |-> IF res.idtype = IDMAP_UID THEN 1 ELSE 0,
                expiration |-> curtime + IDMAP_CACHE_TTL, w2u |-> 1,
                u2w |-> IF res.direction = IDMAP_DIRECTION_BI THEN "1"
                                                              ELSE SQLNULL]
        cache2 == ReplaceIntoCache(cache1, row)
        state1 == [state EXCEPT !.sid2pid_done = FALSE]
        nrow == [sidprefix |-> req.id1.prefix, rid |-> req.id1.rid,
                 name |-> req.id1name, domain |-> req.id1domain,
                 type |-> IF res.idtype = IDMAP_UID THEN _IDMAP_T_USER
                                                    ELSE _IDMAP_T_GROUP,
                 expiration |-> curtime + NAME_CACHE_TTL]
    IN  IF req.direction = _IDMAP_F_DONE
        THEN unchanged
        ELSE IF res.retcode # IDMAP_SUCCESS
        THEN unchanged
        ELSE IF supersede /\ clash
        THEN [unchanged EXCEPT !.retcode = IDMAP_ERR_OTHER]
        ELSE IF _IDMAP_F_S2N_CACHE \in req.direction \/ req.id1name = NULL
        THEN [retcode |-> IDMAP_SUCCESS, state |-> state1, cache |-> cache2,
              ncache |-> ncache, wrote |-> TRUE]
        ELSE [retcode |-> IDMAP_SUCCESS, state |-> state1, cache |-> cache2,
              ncache |-> ReplaceIntoNameCache(ncache, nrow), wrote |-> TRUE]

(***************************************************************************)
(* add_namerule                                                            *)
(***************************************************************************)
\* The unique indexes of the namerules table, by their columns.
namerules_w2u == <<"winname", "windomain", "is_user", "w2u_order">>
namerules_u2w == <<"unixname", "is_user", "u2w_order">>

\* The texts of sqlmsgtable, word by word.
sqlmsgtable ==
    <<[retcode |-> IDMAP_ERR_U2W_NAMERULE_CONFLICT,
       msg |-> <<"columns", "unixname", "is_user", "u2w_order",
                 "are not unique">>],
      [retcode |-> IDMAP_ERR_W2U_NAMERULE_CONFLICT,
       msg |-> <<"columns", "winname", "windomain", "is_user", "w2u_order",
                 "are not unique">>]>>

\* A variant of idmapd_string2stat that knows no message.
idmapd_string2stat_other(msg) == IDMAP_ERR_OTHER

idmapd_string2stat(msg) ==
    IF \E i \in DOMAIN sqlmsgtable : sqlmsgtable[i].msg = msg
    THEN sqlmsgtable[CHOOSE i \in DOMAIN sqlmsgtable :
                         /\ sqlmsgtable[i].msg = msg
                         /\ \A j \in 1..(i - 1) : sqlmsgtable[j].msg # msg
                    ].retcode
    ELSE IDMAP_ERR_OTHER

\* The store's message for a violated unique index: "columns a, b, c are
\* not unique", word by word; <<>> stands for SQLITE_OK.
NotUniqueMsg(index) == <<"columns">> \o index \o <<"are not unique">>

\* A row collides with a stored row on a unique index when all columns of
\* the index agree and none of them is NULL (an order of 0 is stored as
\* NULL).
IndexViolated(db, row, index) ==
    \E r \in db :
        \A k \in DOMAIN index :
            /\ r[index[k]] = row[index[k]]
            /\ index[k] \in {"w2u_order", "u2w_order"} => row[index[k]] # 0

\* INSERT into namerules; the store reports the first violated index of
\* the order in which it checks them.
insert_namerule(db, row, indexes) ==
    IF \E k \in DOMAIN indexes : IndexViolated(db, row, indexes[k])
    THEN [errmsg |-> NotUniqueMsg(indexes[
                        CHOOSE k \in DOMAIN indexes :
                            /\ IndexViolated(db, row, indexes[k])
                            /\ \A j \in 1..(k - 1) :
                                   ~IndexViolated(db, row, indexes[j])]),
          db |-> db]
    ELSE [errmsg |-> <<>>, db |-> db \cup {row}]

sql_exec_no_cb(ins) ==
    [retcode |-> IF ins.errmsg # <<>> THEN idmapd_string2stat(ins.errmsg)
                 ELSE IDMAP_SUCCESS,
     db |-> ins.db]

\* The orders in which the store may check the two indexes.
IndexOrders == {<<namerules_w2u, namerules_u2w>>,
                <<namerules_u2w, namerules_w2u>>}

\* The row add_namerule inserts for a rule with orders o.
namerule_row(rule, o) ==
    [is_user |-> IF rule.is_user # 0 THEN 1 ELSE 0,
     windomain |-> IF rule.windomain # NULL THEN rule.windomain
                   ELSE IF lookup_wksids_name2sid(rule.winname)
                           = IDMAP_SUCCESS
                   THEN EMPTY
                   ELSE IF mapping_domain # NULL THEN mapping_domain
                   ELSE EMPTY,
     winname |-> rule.winname,
     is_nt4 |-> IF rule.is_nt4 # 0 THEN 1 ELSE 0,
     unixname |-> rule.unixname,
     w2u_order |-> o.w2u_order, u2w_order |-> o.u2w_order]

add_namerule_exec(db, row, indexes) ==
    [retcode |-> IF sql_exec_no_cb(insert_namerule(db, row, indexes)).retcode
                    = IDMAP_ERR_OTHER
                 THEN IDMAP_ERR_CFG
                 ELSE sql_exec_no_cb(insert_namerule(db, row,
                                                     indexes)).retcode,
     db |-> insert_namerule(db, row, indexes).db]

add_namerule_order(db, rule, indexes, o) ==
    IF o.retcode # IDMAP_SUCCESS
    THEN [retcode |-> o.retcode, db |-> db]
    ELSE add_namerule_exec(db, namerule_row(rule, o), indexes)

add_namerule(db, rule, indexes) ==
    add_namerule_order(db, rule, indexes,
                       get_namerule_order(rule.winname, rule.windomain,
                                          rule.unixname, rule.direction))

(***************************************************************************)
(* Spec: the daemon serving batches of SID-to-id requests, one batch at a  *)
(* time.  A batch goes through the first pass of each item, the directory  *)
(* round, the second pass of each item and the cache update of each item.  *)
(* Between batches the clock advances.                                     *)
(***************************************************************************)
Req(sid, idtype, flag) ==
    [id1 |-> sid, id1name |-> NULL, id1domain |-> NULL, id2type |-> idtype,
     id2name |-> NULL, flag |-> flag, direction |-> _IDMAP_F_DONE]

Requests ==
    {Req(SidAlice, IDMAP_UID, {}),
     Req(SidFoo, IDMAP_UID, {}),
     Req(SidEveryone, IDMAP_GID, {}),
     Req(SidEveryone, IDMAP_UID, {}),
     Req(SidEveryone, IDMAP_GID, {IDMAP_REQ_FLG_NO_NEW_ID_ALLOC}),
     Req(SidCreatorOwner, IDMAP_UID, {}),
     Req(SidCreatorOwnerServer, IDMAP_UID, {})}

\* The requests for the accounts of the directory.
DomainRequests ==
    {Req(SidAlice, IDMAP_UID, {}), Req(SidFoo, IDMAP_UID, {}),
     Req(SidBob, IDMAP_UID, {})}

Batches(pool) == UNION {[1..n -> pool] : n \in 1..MaxBatchLen}

Rule(winname, windomain, unixname, direction) ==
    [is_user |-> 1, winname |-> winname, windomain |-> windomain,
     is_nt4 |-> 0, unixname |-> unixname, direction |-> direction]

CandidateRules ==
    {Rule(foo, CORP, EMPTY, IDMAP_DIRECTION_W2U),
     Rule(foo, CORP, bob, IDMAP_DIRECTION_W2U),
     Rule(foo, CORP, carol, IDMAP_DIRECTION_W2U),
     Rule(STAR, CORP, STAR, IDMAP_DIRECTION_BI)}

\* An entry of the result array as the batch driver allocates it (zeroed).
ZeroRes ==
    [retcode |-> IDMAP_SUCCESS, idtype |-> IDMAP_NONE, id |-> U32(0, 0),
     direction |-> IDMAP_DIRECTION_BI]

AllocState ==
    [next_uid |-> next_uid, limit_uid |-> limit_uid, auth_uid |-> auth_uid,
     next_gid |-> next_gid, limit_gid |-> limit_gid, auth_gid |-> auth_gid]

\* The uid window is fresh or used up; the stores are as init_dbs leaves
\* them.
Init ==
    /\ next_uid \in {EphBase, U32Add(EphBase, EPH_BLOCK)}
    /\ limit_uid = U32Add(EphBase, EPH_BLOCK)
    /\ auth_uid = U32Add(EphBase, EPH_BLOCK)
    /\ next_gid = EphBase
    /\ limit_gid = U32Add(EphBase, EPH_BLOCK)
    /\ auth_gid = U32Add(EphBase, EPH_BLOCK)
    /\ NoObservations /\ NoEnv /\ NoThreads /\ NoOrder
    /\ idmap_cache = {} /\ name_cache = {} /\ namerules = {}
    /\ now = 1
    /\ batch = <<>> /\ result = <<>> /\ trace = <<>>
    /\ lookup_state = NoState
    /\ phase = "idle"
    /\ minted = {}
    /\ nbatches = 0 /\ nticks = 0

\* The batch driver's prologue: the SID history is sized to the batch and
\* every slot is empty (key and next equal to the size).
StartBatch(pool) ==
    /\ phase = "idle"
    /\ nbatches < MaxBatches
    /\ \E b \in Batches(pool) :
        \E h \in [{b[k].id1 : k \in DOMAIN b} -> 0..(Len(b) - 1)] :
            /\ batch' = b
            /\ result' = [k \in DOMAIN b |-> ZeroRes]
            /\ trace' = [k \in DOMAIN b |-> "none"]
            /\ lookup_state' = [sid2pid_done |-> TRUE, pid2sid_done |-> TRUE,
                         ad_nqueries |-> 0,
                         sid_history |->
                             [s \in 0..(Len(b) - 1) |->
                                 [key |-> Len(b), next |-> Len(b)]],
                         sid_history_size |-> Len(b),
                         curpos |-> 0, hash |-> h, ad |-> NoRound]
    /\ phase' = "first"
    /\ nbatches' = nbatches + 1
    /\ UNCHANGED <<envVars, allocVars, obsVars, concVars, ordVars, idmap_cache,
                   name_cache, namerules, now, minted, nticks>>

FirstPass ==
    /\ phase = "first"
    /\ IS_BATCH_SID(batch, lookup_state.curpos + 1)
    /\ \E i \in {lookup_state.curpos + 1} :
       \E p \in {sid2pid_first_pass(lookup_state, idmap_cache, name_cache,
                                   batch[i], result[i], now)} :
       LET last == i = Len(batch)
       IN  /\ batch' = [batch EXCEPT ![i] = p.req]
           /\ result' = [result EXCEPT ![i] = p.res]
           /\ lookup_state' = [p.state EXCEPT !.curpos = IF last THEN 0 ELSE i]
           /\ phase' = IF ~last THEN "first"
                       ELSE IF /\ p.state.sid2pid_done
                               /\ p.state.pid2sid_done
                       THEN "done" ELSE "ad"
    /\ UNCHANGED <<envVars, allocVars, obsVars, concVars, ordVars, idmap_cache,
                   name_cache, namerules, now, trace, minted, nbatches,
                   nticks>>

DirectoryRound(kinds) ==
    /\ phase = "ad"
    /\ \E o \in NetOutcomes(kinds, lookup_state, batch, result) :
       \E a \in {lookup_win_batch_sid2name(lookup_state, batch, result, o)} :
           /\ batch' = a.batch
           /\ result' = a.result
           /\ lookup_state' = [a.state EXCEPT
                                 !.sid2pid_done = IF a.again THEN @ ELSE TRUE]
           /\ phase' = IF a.again THEN "ad" ELSE "second"
    /\ UNCHANGED <<envVars, allocVars, obsVars, concVars, ordVars, idmap_cache,
                   name_cache, namerules, now, trace, minted, nbatches,
                   nticks>>

SecondPass ==
    /\ phase = "second"
    /\ IS_BATCH_SID(batch, lookup_state.curpos + 1)
    /\ \E ord \in SortedRows(namerules), g \in Grants :
        \E i \in {lookup_state.curpos + 1} :
        \E p \in {sid2pid_second_pass(lookup_state, batch, result, ord,
                                     batch[i], result[i], AllocState, g)} :
        LET last == i = Len(batch)
        IN  /\ batch' = [batch EXCEPT ![i] = p.req]
            /\ result' = [result EXCEPT ![i] = p.res]
            /\ trace' = [trace EXCEPT ![i] = p.path]
            /\ lookup_state' = [p.state EXCEPT
                           !.curpos = IF last THEN 0 ELSE i,
                           !.sid2pid_done = IF last THEN TRUE ELSE @,
                           !.pid2sid_done = IF last THEN TRUE ELSE @]
            /\ phase' = IF ~last THEN "second"
                        ELSE IF /\ p.state.sid2pid_done
                                /\ p.state.pid2sid_done
                        THEN "done" ELSE "update"
            /\ next_uid' = p.alloc.next_uid
            /\ limit_uid' = p.alloc.limit_uid
            /\ auth_uid' = p.alloc.auth_uid
            /\ next_gid' = p.alloc.next_gid
            /\ limit_gid' = p.alloc.limit_gid
            /\ auth_gid' = p.alloc.auth_gid
            /\ IF p.call.made THEN Observe(p.call.kind, p.call)
                              ELSE UNCHANGED obsVars
    /\ UNCHANGED <<envVars, concVars, ordVars, idmap_cache, name_cache, namerules,
                   now, minted, nbatches, nticks>>

UpdateCache ==
    /\ phase = "update"
    /\ IS_BATCH_SID(batch, lookup_state.curpos + 1)
    /\ \E i \in {lookup_state.curpos + 1} :
       \E u \in {update_cache_sid2pid(lookup_state, idmap_cache, name_cache,
                                     batch[i], result[i], now)} :
       LET last == i = Len(batch)
       IN  /\ idmap_cache' = u.cache
           /\ name_cache' = u.ncache
           /\ lookup_state' = [u.state EXCEPT !.curpos = IF last THEN 0 ELSE i]
           /\ phase' = IF last THEN "done" ELSE "update"
           /\ minted' = IF u.wrote /\ trace[i] = "eph_mint"
                        THEN minted \cup {[sid |-> batch[i].id1,
                                           idtype |-> result[i].idtype,
                                           pid |-> result[i].id,
                                           nb |-> nbatches]}
                        ELSE minted
    /\ UNCHANGED <<envVars, allocVars, obsVars, concVars, ordVars, namerules, now,
                   batch, result, trace, nbatches, nticks>>

EndBatch ==
    /\ phase = "done"
    /\ phase' = "idle"
    /\ batch' = <<>> /\ result' = <<>> /\ trace' = <<>>
    /\ lookup_state' = NoState
    /\ UNCHANGED <<envVars, allocVars, obsVars, concVars, ordVars, idmap_cache,
                   name_cache, namerules, now, minted, nbatches, nticks>>

\* The clock, seen between batches, in steps of the cache's time to live.
Tick ==
    /\ phase = "idle"
    /\ nbatches < MaxBatches
    /\ idmap_cache # {}
    /\ nticks < MaxTicks
    /\ now' = now + IDMAP_CACHE_TTL
    /\ nticks' = nticks + 1
    /\ UNCHANGED <<envVars, allocVars, obsVars, concVars, ordVars, idmap_cache,
                   name_cache, namerules, batch, result, lookup_state, phase, trace,
                   minted, nbatches>>

AddNamerule ==
    /\ phase = "idle"
    /\ nbatches < MaxBatches
    /\ Cardinality(namerules) < MaxRules
    /\ \E rule \in CandidateRules, indexes \in IndexOrders :
           namerules' = add_namerule(namerules, rule, indexes).db
    /\ UNCHANGED <<envVars, allocVars, obsVars, concVars, ordVars, idmap_cache,
                   name_cache, now, batch, result, lookup_state, phase, trace,
                   minted, nbatches, nticks>>

Next ==
    \/ StartBatch(Requests)
    \/ FirstPass
    \/ DirectoryRound(NetUp)
    \/ SecondPass
    \/ UpdateCache
    \/ EndBatch
    \/ Tick

Spec == Init /\ [][Next]_vars

(***************************************************************************)
(* SpecRules: the same daemon with an administrator adding rules between  *)
(* batches, serving requests for the accounts of the directory.            *)
(***************************************************************************)
NextRules ==
    \/ StartBatch(DomainRequests)
    \/ FirstPass
    \/ DirectoryRound(NetUp)
    \/ SecondPass
    \/ UpdateCache
    \/ EndBatch
    \/ Tick
    \/ AddNamerule

SpecRules == Init /\ [][NextRules]_vars

(***************************************************************************)
(* SpecAdd: the administrative path alone.  add_namerule is called with    *)
(* rule after rule on a rule table that starts empty; nr_in holds the rule *)
(* of the last call and nr_out its return code and orders.                 *)
(***************************************************************************)
MaxAddRules == 3

GroupRule(rule) == [rule EXCEPT !.is_user = 0]

AddRules ==
    CandidateRules
    \cup {Rule(foo, NULL, bob, IDMAP_DIRECTION_W2U),
          Rule(alice, CORP, bob, IDMAP_DIRECTION_W2U),
          Rule(foo, CORP, bob, IDMAP_DIRECTION_U2W),
          Rule(alice, CORP, bob, IDMAP_DIRECTION_U2W),
          Rule(foo, CORP, bob, IDMAP_DIRECTION_BI),
          Rule(foo, CORP, STAR, IDMAP_DIRECTION_W2U),
          GroupRule(Rule(foo, CORP, bob, IDMAP_DIRECTION_W2U))}

InitAdd ==
    FreshWindows /\ NoObservations /\ NoEnv /\ NoThreads /\ NoOrder /\ NoBatch

AddRule ==
    /\ phase = "off"
    /\ \E rule \in AddRules, indexes \in IndexOrders :
           \E r \in {add_namerule(namerules, rule, indexes)} :
               /\ Cardinality(r.db) <= MaxAddRules
               /\ nr_in' = rule
               /\ nr_out' = [get_namerule_order(rule.winname, rule.windomain,
                                                rule.unixname, rule.direction)
                             EXCEPT !.retcode = r.retcode]
               /\ namerules' = r.db
    /\ UNCHANGED <<envVars, allocVars, obsVars, concVars, n2s, idmap_cache,
                   name_cache, now, batch, result, lookup_state, phase,
                   trace, minted, nbatches, nticks>>

NextAdd == AddRule

SpecAdd == InitAdd /\ [][NextAdd]_vars

(***************************************************************************)
(* The cache lookups of the other direction and of the name cache.         *)
(***************************************************************************)
IDMAP_SID == "IDMAP_SID"

\* lookup_cache_pid2sid once the SELECT has given the row v
cache_pid2sid_row(req, res, getname, v) ==
    IF req.id2type = IDMAP_SID
    THEN [retcode |-> IDMAP_SUCCESS,
          req |-> [req EXCEPT
                     !.id2name = IF getname # 0 /\ v.winname # NULL
                                 THEN v.winname ELSE @,
                     !.id2domain = IF /\ getname # 0 /\ v.winname # NULL
                                      /\ v.windomain # NULL
                                   THEN v.windomain ELSE @],
          res |-> [res EXCEPT
                     !.id = [prefix |-> v.sidprefix, rid |-> v.rid],
                     !.direction = IF v.w2u <= 0 THEN IDMAP_DIRECTION_U2W
                                   ELSE IDMAP_DIRECTION_BI]]
    ELSE [retcode |-> IDMAP_ERR_NOTSUPPORTED, req |-> req, res |-> res]

lookup_cache_pid2sid(cache, req, res, is_user, getname, curtime) ==
    LET rows == {r \in cache :
                    /\ r.pid = req.id1
                    /\ r.u2w = "1"
                    /\ r.is_user = is_user
                    /\ \/ IS_EPHEMERAL(r.pid)
                       \/ r.expiration = 0
                       \/ r.expiration > curtime}
    IN  IF rows = {}
        THEN [retcode |-> IDMAP_ERR_NOTFOUND, req |-> req, res |-> res]
        ELSE cache_pid2sid_row(req, res, getname, CHOOSE r \in rows : TRUE)

\* A variant of lookup_cache_name2sid that takes a row expiring now.
lookup_cache_name2sid_geq(ncache, name, domain, curtime) ==
    LET rows == {r \in ncache :
                    /\ r.name = name /\ r.domain = domain
                    /\ (r.expiration = 0 \/ r.expiration >= curtime)}
    IN  IF rows = {}
        THEN [retcode |-> IDMAP_ERR_NOTFOUND, sidprefix |-> NULL,
              rid |-> U32(0, 0), type |-> _IDMAP_T_UNDEF]
        ELSE [retcode |-> IDMAP_SUCCESS,
              sidprefix |-> (CHOOSE r \in rows : TRUE).sidprefix,
              rid |-> (CHOOSE r \in rows : TRUE).rid,
              type |-> (CHOOSE r \in rows : TRUE).type]

lookup_cache_name2sid(ncache, name, domain, curtime) ==
    LET rows == {r \in ncache :
                    /\ r.name = name /\ r.domain = domain
                    /\ (r.expiration = 0 \/ r.expiration > curtime)}
    IN  IF rows = {}
        THEN [retcode |-> IDMAP_ERR_NOTFOUND, sidprefix |-> NULL,
              rid |-> U32(0, 0), type |-> _IDMAP_T_UNDEF]
        ELSE [retcode |-> IDMAP_SUCCESS,
              sidprefix |-> (CHOOSE r \in rows : TRUE).sidprefix,
              rid |-> (CHOOSE r \in rows : TRUE).rid,
              type |-> (CHOOSE r \in rows : TRUE).type]

(***************************************************************************)
(* SpecCache: the cache store alone.  The caches start with one row for    *)
(* alice whose expiration is 0, past, now or now+1; then a cache write     *)
(* and a cache lookup, or a cache lookup alone, is made.  trace holds the  *)
(* names of the calls made, batch their requests and result their results. *)
(***************************************************************************)
MaxCacheCalls == 2

Expirations(t) == {0, t - 1, t, t + 1}

CachePids == {U32(0, 5001), U32Add(EphBase, 1)}

CacheRow(sid, pid, exp) ==
    [sidprefix |-> sid.prefix, rid |-> sid.rid, windomain |-> CORP,
     winname |-> alice, pid |-> pid, unixname |-> NULL, is_user |-> 1,
     expiration |-> exp, w2u |-> 1, u2w |-> "1"]

NameRow(sid, exp) ==
    [sidprefix |-> sid.prefix, rid |-> sid.rid, name |-> alice,
     domain |-> CORP, type |-> _IDMAP_T_USER, expiration |-> exp]

\* A request of the other direction: id1 is the id, id2 the wanted SID.
PidReq(pid, idtype) ==
    [id1 |-> pid, id1name |-> NULL, id1domain |-> NULL, id2type |-> idtype,
     id2name |-> NULL, id2domain |-> NULL, flag |-> {},
     direction |-> _IDMAP_F_DONE]

CacheSidRequests ==
    {Req(sid, t, f) :
        sid \in {SidAlice, SidFoo},
        t \in {IDMAP_UID, IDMAP_GID, IDMAP_POSIXID},
        f \in {{}, {IDMAP_REQ_FLG_NO_NEW_ID_ALLOC},
               {IDMAP_REQ_FLG_NO_NAMESERVICE}}}

\* The requests and results the second pass can hand to the cache update.
CacheWrites ==
    {[req |-> [Req(sid, t, {}) EXCEPT !.direction = d, !.id1name = n,
                                      !.id1domain = IF n = NULL THEN NULL
                                                    ELSE CORP],
       res |-> [ZeroRes EXCEPT !.idtype = t, !.id = pid, !.direction = dir]] :
        sid \in {SidAlice, SidFoo}, t \in {IDMAP_UID, IDMAP_GID},
        d \in {{_IDMAP_F_S2N_AD}, {_IDMAP_F_EXP_EPH_UID}},
        n \in {NULL, alice}, pid \in CachePids,
        dir \in {IDMAP_DIRECTION_BI, IDMAP_DIRECTION_W2U}}

InitCache ==
    /\ FreshWindows /\ NoObservations /\ NoEnv /\ NoThreads /\ NoOrder
    /\ now \in {2, 3}
    /\ idmap_cache \in {{CacheRow(SidAlice, pid, exp)} :
                            pid \in CachePids, exp \in Expirations(now)}
    /\ name_cache \in {{NameRow(SidAlice, exp)} : exp \in Expirations(now)}
    /\ namerules = {}
    /\ batch = <<>> /\ result = <<>> /\ trace = <<>>
    /\ lookup_state = NoState
    /\ phase = "cache"
    /\ minted = {}
    /\ nbatches = 0 /\ nticks = 0

CacheCalled(op, req, res) ==
    /\ phase = "cache"
    /\ Len(trace) < MaxCacheCalls
    /\ trace' = Append(trace, op)
    /\ batch' = Append(batch, req)
    /\ result' = Append(result, res)
    /\ UNCHANGED <<envVars, allocVars, obsVars, concVars, ordVars, namerules, now,
                   phase, minted, nbatches, nticks>>

CacheSid2pid ==
    \E q \in CacheSidRequests :
        \E r \in {lookup_cache_sid2pid(idmap_cache, q, ZeroRes, now)} :
            /\ CacheCalled("lookup_cache_sid2pid", r.req,
                           [r.res EXCEPT !.retcode = r.retcode])
            /\ UNCHANGED <<envVars, idmap_cache, name_cache, lookup_state>>

CachePid2sid ==
    \E pid \in CachePids, t \in {IDMAP_SID, IDMAP_UID}, getname \in {0, 1} :
        \E r \in {lookup_cache_pid2sid(idmap_cache, PidReq(pid, t), ZeroRes,
                                       1, getname, now)} :
            /\ CacheCalled("lookup_cache_pid2sid", r.req,
                           [r.res EXCEPT !.retcode = r.retcode])
            /\ UNCHANGED <<envVars, idmap_cache, name_cache, lookup_state>>

CacheSid2name ==
    \E sid \in {SidAlice, SidFoo} :
        /\ CacheCalled("lookup_cache_sid2name", sid,
                       lookup_cache_sid2name(name_cache, sid.prefix, sid.rid,
                                             now))
        /\ UNCHANGED <<envVars, idmap_cache, name_cache, lookup_state>>

CacheName2sid ==
    \E name \in {alice, foo} :
        /\ CacheCalled("lookup_cache_name2sid", name,
                       lookup_cache_name2sid(name_cache, name, CORP, now))
        /\ UNCHANGED <<envVars, idmap_cache, name_cache, lookup_state>>

CacheUpdate ==
    /\ trace = <<>>
    /\ \E w \in CacheWrites :
           \E u \in {update_cache_sid2pid(lookup_state, idmap_cache,
                                          name_cache, w.req, w.res, now)} :
               /\ CacheCalled("update_cache_sid2pid", w.req,
                              [w.res EXCEPT !.retcode = u.retcode])
               /\ idmap_cache' = u.cache
               /\ name_cache' = u.ncache
               /\ lookup_state' = u.state

NextCache ==
    \/ CacheSid2pid
    \/ CachePid2sid
    \/ CacheSid2name
    \/ CacheName2sid
    \/ CacheUpdate

SpecCache == InitCache /\ [][NextCache]_vars

(***************************************************************************)
(* lookup_win_name2sid: one name looked up in the directory, in a batch of *)
(* its own.                                                                *)
(***************************************************************************)
\* idmap_name2sid_batch_add1 and idmap_lookup_batch_end for the name: the
\* directory's answer.
name2sid_batch_add1(name, domain) ==
    IF \E d \in Directory : strcaseeq(d.name, name)
                            /\ strcaseeq(d.domain, domain)
    THEN [rc |-> IDMAP_SUCCESS,
          sid |-> (CHOOSE d \in Directory :
                      strcaseeq(d.name, name)
                      /\ strcaseeq(d.domain, domain)).sid]
    ELSE [rc |-> IDMAP_ERR_NOTFOUND, sid |-> NULL]

\* retcode at out, after the end or the release of the batch
win_name2sid_retcode(kind) ==
    IF kind \in {"add_retry", "end_retry"} THEN IDMAP_ERR_RETRIABLE_NET_ERR
    ELSE IF kind = "end_err" THEN IDMAP_ERR_INTERNAL
    ELSE IDMAP_SUCCESS

\* A variant of win_name2sid_again that allows a third retry.
win_name2sid_again_3(c, rc) ==
    rc = IDMAP_ERR_RETRIABLE_NET_ERR /\ c.retries < 3

win_name2sid_again(c, rc) ==
    rc = IDMAP_ERR_RETRIABLE_NET_ERR /\ c.retries < 2

win_name2sid_out(c, rc) ==
    IF win_name2sid_again(c, rc)
    THEN [c EXCEPT !.retries = @ + 1, !.attempts = @ + 1, !.retcode = rc]
    ELSE IF rc # IDMAP_SUCCESS
    THEN [c EXCEPT !.pc = "done", !.attempts = @ + 1, !.retcode = rc,
                   !.retries = IF rc = IDMAP_ERR_RETRIABLE_NET_ERR
                               THEN @ + 1 ELSE @,
                   !.ret = rc]
    ELSE [c EXCEPT !.pc = "done", !.attempts = @ + 1, !.retcode = rc,
                   !.ret = name2sid_batch_add1(c.name, c.domain).rc,
                   !.sid = name2sid_batch_add1(c.name, c.domain).sid]

\* One attempt of lookup_win_name2sid, from retry: to the goto retry or
\* the return; kind is what the directory does.
lookup_win_name2sid(c, kind) ==
    IF kind \in {"start_fail", "add_err"}
    THEN [c EXCEPT !.pc = "done", !.attempts = @ + 1,
                   !.retcode = IF kind = "add_err" THEN IDMAP_ERR_INTERNAL
                               ELSE @,
                   !.ret = IDMAP_ERR_INTERNAL]
    ELSE win_name2sid_out(c, win_name2sid_retcode(kind))

(***************************************************************************)
(* SpecDir: the daemon with a directory that can fail.  Between batches a  *)
(* name is looked up with lookup_win_name2sid; the directory round of a    *)
(* batch meets every outcome of NetKinds.  A step of either call is one    *)
(* attempt.                                                                *)
(***************************************************************************)
MaxLookups == 2

DirRequests ==
    {Req(SidAlice, IDMAP_UID, {}), Req(SidFoo, IDMAP_UID, {}),
     Req(SidCreatorOwner, IDMAP_UID, {})}

Name2sidCall ==
    /\ phase = "idle"
    /\ n2s.pc = "idle"
    /\ n2s.calls < MaxLookups
    /\ \E name \in {alice, carol} :
           n2s' = [NoLookup EXCEPT !.pc = "retry", !.name = name,
                                   !.domain = CORP, !.calls = n2s.calls + 1]
    /\ UNCHANGED <<envVars, allocVars, obsVars, concVars, nr_in, nr_out, mapVars>>

Name2sidAttempt ==
    /\ n2s.pc = "retry"
    /\ \E kind \in NetKinds : n2s' = lookup_win_name2sid(n2s, kind)
    /\ UNCHANGED <<envVars, allocVars, obsVars, concVars, nr_in, nr_out, mapVars>>

Name2sidReturn ==
    /\ n2s.pc = "done"
    /\ n2s' = [NoLookup EXCEPT !.calls = n2s.calls]
    /\ UNCHANGED <<envVars, allocVars, obsVars, concVars, nr_in, nr_out, mapVars>>

NextDir ==
    \/ (n2s.pc = "idle" /\ StartBatch(DirRequests))
    \/ FirstPass
    \/ DirectoryRound(NetKinds)
    \/ SecondPass
    \/ UpdateCache
    \/ EndBatch
    \/ Name2sidCall
    \/ Name2sidAttempt
    \/ Name2sidReturn

SpecDir == Init /\ [][NextDir]_vars

\* A thread inside either call goes on to its next attempt.
SpecDirLive ==
    /\ SpecDir
    /\ WF_vars(DirectoryRound(NetKinds))
    /\ WF_vars(Name2sidAttempt)

(***************************************************************************)
(* The id-to-SID direction: pid2sid_first_pass and update_cache_pid2sid.   *)
(* A request of this direction holds the id in id1, its type in id1type    *)
(* and the wanted type in id2type; the result's id is a SID.               *)
(***************************************************************************)
IDMAP_ERR_DOMAIN_NOTFOUND == "IDMAP_ERR_DOMAIN_NOTFOUND"

\* The for loop of lookup_wksids_pid2sid from row i on.
RECURSIVE wksids_pid2sid_from(_, _, _, _)
wksids_pid2sid_from(i, req, res, is_user) ==
    IF i > Len(wksids)
    THEN [retcode |-> IDMAP_ERR_NOTFOUND, res |-> res]
    ELSE IF /\ wksids[i].pid = req.id1
            /\ wksids[i].is_user = is_user
            /\ wksids[i].direction # IDMAP_DIRECTION_W2U
    THEN [retcode |-> IDMAP_SUCCESS,
          res |-> [res EXCEPT !.id = [prefix |-> wksids[i].sidprefix,
                                      rid |-> wksids[i].rid],
                              !.direction = wksids[i].direction]]
    ELSE wksids_pid2sid_from(i + 1, req, res, is_user)

lookup_wksids_pid2sid(req, res, is_user) ==
    IF req.id2type # IDMAP_SID
    THEN [retcode |-> IDMAP_ERR_NOTSUPPORTED, res |-> res]
    ELSE wksids_pid2sid_from(1, req, res, is_user)

\* getpwuid_r and getgrgid_r.  ns is the state of the name service: with
\* "err" the call fails with errno set, else an account that is missing
\* leaves errno 0.
getpwuid_r(uid, ns) ==
    IF ns = "err" THEN [found |-> FALSE, errnum |-> 1, name |-> NULL]
    ELSE IF \E p \in passwd : p.pw_uid = uid
    THEN [found |-> TRUE, errnum |-> 0,
          name |-> (CHOOSE p \in passwd : p.pw_uid = uid).pw_name]
    ELSE [found |-> FALSE, errnum |-> 0, name |-> NULL]

getgrgid_r(gid, ns) ==
    IF ns = "err" THEN [found |-> FALSE, errnum |-> 1, name |-> NULL]
    ELSE IF \E g \in group : g.gr_gid = gid
    THEN [found |-> TRUE, errnum |-> 0,
          name |-> (CHOOSE g \in group : g.gr_gid = gid).gr_name]
    ELSE [found |-> FALSE, errnum |-> 0, name |-> NULL]

\* A convention that offsets groups like users.
generate_localsid_flat(req, res, is_user) ==
    IF is_user # 0 /\ U32Gt(req.id1, U32(0, INT32_MAX - LOCALRID_MIN))
    THEN [retcode |-> IDMAP_ERR_NOMAPPING, req |-> req, res |-> res]
    ELSE [retcode |-> IDMAP_SUCCESS,
          req |-> [req EXCEPT !.direction = {_IDMAP_F_S2N_CACHE}],
          res |-> [res EXCEPT
                     !.id = [prefix |-> machine_sid,
                             rid |-> U32Add(req.id1, LOCALRID_MIN)],
                     !.direction = IDMAP_DIRECTION_BI]]

\* <machine-sid-prefix>-<1000 + uid>, <machine-sid-prefix>-<2^31 + gid>
generate_localsid(req, res, is_user) ==
    IF machine_sid # SQLNULL
    THEN IF is_user # 0 /\ U32Gt(req.id1, U32(0, INT32_MAX - LOCALRID_MIN))
         THEN [retcode |-> IDMAP_ERR_NOMAPPING, req |-> req, res |-> res]
         ELSE [retcode |-> IDMAP_SUCCESS,
               req |-> [req EXCEPT !.direction = {_IDMAP_F_S2N_CACHE}],
               res |-> [res EXCEPT
                          !.id = [prefix |-> machine_sid,
                                  rid |-> IF is_user # 0
                                          THEN U32Add(req.id1, LOCALRID_MIN)
                                          ELSE U32Add(U32Add(req.id1,
                                                   INT32_MAX), 1)],
                          !.direction = IDMAP_DIRECTION_BI]]
    ELSE [retcode |-> IDMAP_ERR_NOMAPPING, req |-> req, res |-> res]

\* A whole call of lookup_win_name2sid: its attempts meet the outcomes of
\* net one after the other.
RECURSIVE win_name2sid_run(_, _)
win_name2sid_run(c, net) ==
    IF c.pc = "done" THEN c
    ELSE win_name2sid_run(lookup_win_name2sid(c, Head(net)), Tail(net))

\* What the directory does during the calls of one step.
NetRuns ==
    {<<"ok", "ok", "ok">>, <<"end_retry", "ok", "ok">>,
     <<"add_retry", "end_retry", "add_retry">>}

\* lookup_name2sid at out: an entry with SID sid and type type was found;
\* flag tells where.
name2sid_out(req, res, is_user, sid, type, flag) ==
    [retcode |-> IF is_user = 1 /\ type # _IDMAP_T_USER
                 THEN IDMAP_ERR_NOTUSER
                 ELSE IF is_user = 0 /\ type # _IDMAP_T_GROUP
                 THEN IDMAP_ERR_NOTGROUP
                 ELSE IDMAP_SUCCESS,
     req |-> [req EXCEPT !.direction = @ \cup {flag}],
     res |-> [res EXCEPT !.id = sid]]

\* ... after lookup_win_name2sid has returned c
name2sid_win(req, res, is_user, c) ==
    IF c.ret # IDMAP_SUCCESS
    THEN [retcode |-> c.ret, req |-> req, res |-> res]
    ELSE name2sid_out(req, res, is_user, c.sid,
                      (CHOOSE d \in Directory : d.sid = c.sid).type,
                      _IDMAP_F_S2N_AD)

\* ... after the name cache has answered n
name2sid_cache(name, domain, req, res, is_user, net, n) ==
    IF n.retcode = IDMAP_ERR_NOTFOUND
    THEN name2sid_win(req, res, is_user,
            win_name2sid_run([NoLookup EXCEPT !.pc = "retry",
                                 !.name = name, !.domain = domain], net))
    ELSE IF n.retcode # IDMAP_SUCCESS
    THEN [retcode |-> n.retcode, req |-> req, res |-> res]
    ELSE name2sid_out(req, res, is_user,
                      [prefix |-> n.sidprefix, rid |-> n.rid], n.type,
                      _IDMAP_F_S2N_CACHE)

\* The first row of the well-known table with the name, 0 if there is none.
wksids_byname(name) ==
    IF \E k \in DOMAIN wksids : strcaseeq(wksids[k].winname, name)
    THEN CHOOSE k \in DOMAIN wksids :
            /\ strcaseeq(wksids[k].winname, name)
            /\ \A m \in DOMAIN wksids :
                  strcaseeq(wksids[m].winname, name) => k <= m
    ELSE 0

lookup_name2sid(ncache, name, domain, is_user, req, res, net, curtime) ==
    IF wksids_byname(name) # 0
    THEN name2sid_out(req, res, is_user,
            [prefix |-> wksids[wksids_byname(name)].sidprefix,
             rid |-> wksids[wksids_byname(name)].rid],
            IF wksids[wksids_byname(name)].is_user # 0
            THEN _IDMAP_T_USER ELSE _IDMAP_T_GROUP,
            _IDMAP_F_S2N_CACHE)
    ELSE name2sid_cache(name, domain, req, res, is_user, net,
            lookup_cache_name2sid(ncache, name, domain, curtime))

\* ORDER BY u2w_order ASC: the orders in which the rows can come.
SortedRowsU2W(S) ==
    {f \in [1..Cardinality(S) -> S] :
        /\ \A a, b \in DOMAIN f : a # b => f[a] # f[b]
        /\ \A a, b \in DOMAIN f : a < b => f[a].u2w_order <= f[b].u2w_order}

\* The rows of the SELECT of name_based_mapping_pid2sid, ord being the rule
\* table in the order the store gives it.
NameruleSelectU2W(ord, unixname, is_user) ==
    SelectSeq(ord, LAMBDA r : /\ r.u2w_order > 0
                              /\ r.is_user = is_user
                              /\ (r.unixname = unixname \/ r.unixname = STAR))

\* name_based_mapping_pid2sid at out with success for the row v
pid_namerule_out(v, winname, windomain, l) ==
    [retcode |-> IDMAP_SUCCESS,
     req |-> [l.req EXCEPT !.id2name = winname, !.id2domain = windomain],
     res |-> [l.res EXCEPT !.direction =
                IF v.w2u_order = 0 THEN IDMAP_DIRECTION_U2W
                                   ELSE IDMAP_DIRECTION_BI]]

\* The for (;;) loop of name_based_mapping_pid2sid at row k.
RECURSIVE pid_namerule_step(_, _, _, _, _, _, _, _, _)
pid_namerule_step(rows, k, ncache, unixname, is_user, req, res, net, curtime) ==
    IF k > Len(rows)
    THEN \* SQLITE_DONE
         [retcode |-> IDMAP_ERR_NOTFOUND, req |-> req, res |-> res]
    ELSE
    LET v == rows[k]
    IN  IF EMPTY_NAME(v.winname)
        THEN [retcode |-> IDMAP_ERR_NOMAPPING, req |-> req, res |-> res]
        ELSE IF v.windomain = NULL /\ mapping_domain = NULL
        THEN [retcode |-> IDMAP_ERR_DOMAIN_NOTFOUND, req |-> req,
              res |-> res]
        ELSE
        LET wild == v.winname[1] = "*"
            winname == IF wild THEN unixname ELSE v.winname
            windomain == IF v.windomain # NULL THEN v.windomain
                                               ELSE mapping_domain
            l == lookup_name2sid(ncache, winname, windomain, is_user, req,
                                 res, net, curtime)
        IN  IF l.retcode = IDMAP_ERR_NOTFOUND
            THEN IF wild
                 THEN pid_namerule_step(rows, k + 1, ncache, unixname,
                                        is_user, l.req, l.res, net, curtime)
                 ELSE [retcode |-> IDMAP_ERR_NOMAPPING, req |-> l.req,
                       res |-> l.res]
            ELSE IF l.retcode = IDMAP_SUCCESS
            THEN pid_namerule_out(v, winname, windomain, l)
            ELSE l

name_based_mapping_pid2sid(ord, ncache, unixname, is_user, req, res, net, curtime) ==
    pid_namerule_step(NameruleSelectU2W(ord, unixname, is_user), 1, ncache,
                      unixname, is_user, req, res, net, curtime)

(***************************************************************************)
(* pid2sid_first_pass, from its last stage back to its first.  path is    *)
(* the branch that was taken.                                              *)
(***************************************************************************)
PidPassOut(retcode, state, req, res, unixname, path) ==
    [retcode |-> retcode,
     state |-> IF req.direction # _IDMAP_F_DONE
               THEN [state EXCEPT !.pid2sid_done = FALSE] ELSE state,
     req |-> IF /\ retcode = IDMAP_SUCCESS
                /\ req.id1name = NULL /\ unixname # NULL
             THEN [req EXCEPT !.id1name = unixname] ELSE req,
     res |-> [res EXCEPT !.retcode = idmap_stat4prot(retcode)],
     path |-> path]

\* ... the label fallback_localsid: g is what generate_localsid gave; the
\* status stays the error assigned before
pid_pass_fallback(state, retcode, unixname, g) ==
    PidPassOut(retcode, state, g.req, g.res, unixname, "fallback")

\* A first pass that hands out the local SID as a final answer, the item
\* being Done.
pid_pass_localsid_done(state, unixname, g) ==
    PidPassOut(g.retcode, state,
               [g.req EXCEPT !.direction = _IDMAP_F_DONE], g.res, unixname,
               "localsid")

\* ... no rule gave a mapping: g is what generate_localsid gave
pid_pass_localsid(state, unixname, g) ==
    PidPassOut(g.retcode, state, g.req, g.res, unixname, "localsid")

\* A variant of pid_pass_named that treats the rules' "not found" as any
\* other error: the local SID is generated and the status kept.
pid_pass_named_through(state, is_user, unixname, n) ==
    IF n.retcode = IDMAP_SUCCESS
    THEN PidPassOut(IDMAP_SUCCESS, state, n.req, n.res, unixname, "name")
    ELSE pid_pass_fallback(state, n.retcode, unixname,
                           generate_localsid(n.req, n.res, is_user))

\* ... after the name-based mapping has answered n
pid_pass_named(state, is_user, unixname, n) ==
    IF n.retcode = IDMAP_ERR_NOTFOUND
    THEN pid_pass_localsid(state, unixname,
                           generate_localsid(n.req, n.res, is_user))
    ELSE IF n.retcode = IDMAP_SUCCESS
    THEN PidPassOut(IDMAP_SUCCESS, state, n.req, n.res, unixname, "name")
    ELSE pid_pass_fallback(state, n.retcode, unixname,
                           generate_localsid(n.req, n.res, is_user))

\* ... after the name service has answered u
pid_pass_ns(state, ncache, ord, req, res, is_user, net, curtime, u) ==
    IF ~u.found
    THEN pid_pass_fallback(state,
            IF u.errnum = 0 THEN IDMAP_ERR_NOTFOUND ELSE IDMAP_ERR_INTERNAL,
            req.id1name, generate_localsid(req, res, is_user))
    ELSE pid_pass_named(state, is_user, u.name,
            name_based_mapping_pid2sid(ord, ncache, u.name, is_user, req,
                                       res, net, curtime))

\* A first pass that goes on to the name service whatever the id and the
\* flags are.
pid_pass_cache_unchecked(state, ncache, ord, is_user, ns, net, curtime, c) ==
    IF c.retcode # IDMAP_ERR_NOTFOUND
    THEN PidPassOut(c.retcode, state, c.req, c.res, NULL, "cache")
    ELSE pid_pass_ns(state, ncache, ord, c.req, c.res, is_user, net, curtime,
            IF is_user # 0 THEN getpwuid_r(c.req.id1, ns)
                           ELSE getgrgid_r(c.req.id1, ns))

\* ... after the cache has answered c
pid_pass_cache(state, ncache, ord, is_user, ns, net, curtime, c) ==
    IF c.retcode # IDMAP_ERR_NOTFOUND
    THEN PidPassOut(c.retcode, state, c.req, c.res, NULL, "cache")
    ELSE IF IS_EPHEMERAL(c.req.id1)
    THEN \* Ephemeral ids cannot be allocated during pid2sid
         PidPassOut(IDMAP_ERR_NOMAPPING, state, c.req, c.res, NULL, "nomap")
    ELSE IF DO_NOT_ALLOC_NEW_ID_MAPPING(c.req) \/ AVOID_NAMESERVICE(c.req)
    THEN PidPassOut(IDMAP_ERR_NOMAPPING, state, c.req, c.res, NULL, "nomap")
    ELSE pid_pass_ns(state, ncache, ord, c.req, c.res, is_user, net, curtime,
            IF is_user # 0 THEN getpwuid_r(c.req.id1, ns)
                           ELSE getgrgid_r(c.req.id1, ns))

\* ... after the well-known table has answered wk
pid_pass_wk(state, cache, ncache, ord, req, is_user, getname, ns, net, curtime, wk) ==
    IF wk.retcode # IDMAP_ERR_NOTFOUND
    THEN PidPassOut(wk.retcode, state, req, wk.res, NULL, "wk")
    ELSE pid_pass_cache(state, ncache, ord, is_user, ns, net, curtime,
            lookup_cache_pid2sid(cache, req, wk.res, is_user, getname,
                                 curtime))

\* ... req being the request with req->direction = _IDMAP_F_DONE and res
\* the result with its type set
pid_pass_start(state, cache, ncache, ord, req, res, is_user, getname, ns, net, curtime) ==
    pid_pass_wk(state, cache, ncache, ord, req, is_user, getname, ns, net,
                curtime, lookup_wksids_pid2sid(req, res, is_user))

pid2sid_first_pass(state, cache, ncache, ord, req, res, is_user, getname, ns, net, curtime) ==
    pid_pass_start(state, cache, ncache, ord,
                   [req EXCEPT !.direction = _IDMAP_F_DONE],
                   [res EXCEPT !.idtype = req.id2type],
                   is_user, getname, ns, net, curtime)

(***************************************************************************)
(* update_cache_pid2sid                                                    *)
(***************************************************************************)
pid2sid_cache_row(req, res, curtime) ==
    [sidprefix |-> res.id.prefix, rid |-> res.id.rid,
     windomain |-> req.id2domain, winname |-> req.id2name,
     pid |-> req.id1, unixname |-> req.id1name,
     is_user |-> IF req.id1type = IDMAP_UID THEN 1 ELSE 0,
     expiration |-> curtime + IDMAP_CACHE_TTL,
     w2u |-> IF res.direction = IDMAP_DIRECTION_BI THEN 1 ELSE -1,
     u2w |-> "1"]

pid2sid_name_row(req, res, curtime) ==
    [sidprefix |-> res.id.prefix, rid |-> res.id.rid,
     name |-> req.id2name, domain |-> req.id2domain,
     type |-> IF req.id1type = IDMAP_UID THEN _IDMAP_T_USER
                                         ELSE _IDMAP_T_GROUP,
     expiration |-> curtime + NAME_CACHE_TTL]

\* A variant of update_cache_pid2sid that caches whatever the pass left.
update_cache_pid2sid_negative(state, cache, ncache, req, res, curtime) ==
    IF req.direction = _IDMAP_F_DONE
    THEN [retcode |-> IDMAP_SUCCESS, state |-> state, cache |-> cache,
          ncache |-> ncache, wrote |-> FALSE]
    ELSE [retcode |-> IDMAP_SUCCESS,
          state |-> [state EXCEPT !.pid2sid_done = FALSE],
          cache |-> ReplaceIntoCache(cache,
                        pid2sid_cache_row(req, res, curtime)),
          ncache |-> ncache, wrote |-> TRUE]

update_cache_pid2sid(state, cache, ncache, req, res, curtime) ==
    IF req.direction = _IDMAP_F_DONE
    THEN \* nothing to cache
         [retcode |-> IDMAP_SUCCESS, state |-> state, cache |-> cache,
          ncache |-> ncache, wrote |-> FALSE]
    ELSE IF res.retcode # IDMAP_SUCCESS
    THEN \* We don't cache negative entries
         [retcode |-> IDMAP_SUCCESS, state |-> state, cache |-> cache,
          ncache |-> ncache, wrote |-> FALSE]
    ELSE IF _IDMAP_F_S2N_CACHE \in req.direction \/ req.id2name = NULL
    THEN [retcode |-> IDMAP_SUCCESS,
          state |-> [state EXCEPT !.pid2sid_done = FALSE],
          cache |-> ReplaceIntoCache(cache,
                        pid2sid_cache_row(req, res, curtime)),
          ncache |-> ncache, wrote |-> TRUE]
    ELSE [retcode |-> IDMAP_SUCCESS,
          state |-> [state EXCEPT !.pid2sid_done = FALSE],
          cache |-> ReplaceIntoCache(cache,
                        pid2sid_cache_row(req, res, curtime)),
          ncache |-> ReplaceIntoNameCache(ncache,
                        pid2sid_name_row(req, res, curtime)),
          wrote |-> TRUE]

(***************************************************************************)
(* SpecPid: the daemon serving batches that hold requests of both          *)
(* directions.  The driver hands an item to the pass of its direction:     *)
(* an id-to-SID item is resolved in the first pass, has no second pass     *)
(* and is cached by update_cache_pid2sid.  The rule table is one the       *)
(* administrator has set up before the first batch.                        *)
(***************************************************************************)
PidRequest(pid, idtype, name, flag) ==
    [id1 |-> pid, id1type |-> idtype, id1name |-> name, id1domain |-> NULL,
     id2type |-> IDMAP_SID, id2name |-> NULL, id2domain |-> NULL,
     flag |-> flag, direction |-> _IDMAP_F_DONE]

dave == <<"d", "a", "v", "e">>

PidRequests ==
    {PidRequest(U32(0, 100), IDMAP_UID, NULL, {}),
     PidRequest(U32(0, 200), IDMAP_UID, NULL, {}),
     PidRequest(U32(0, 200), IDMAP_UID, bob, {}),
     PidRequest(U32(0, 10), IDMAP_GID, NULL, {}),
     PidRequest(U32(0, 100), IDMAP_UID, NULL, {IDMAP_REQ_FLG_NO_NEW_ID_ALLOC}),
     PidRequest(U32Add(EphBase, 5), IDMAP_UID, NULL, {}),
     PidRequest(IDMAP_WK_CREATOR_OWNER_UID, IDMAP_UID, NULL, {}),
     PidRequest(SENTINEL_PID, IDMAP_GID, NULL, {})}

MixedRequests ==
    PidRequests \cup
    {Req(SidAlice, IDMAP_UID, {}),
     Req(SidAlice, IDMAP_GID, {}),
     Req(SidFoo, IDMAP_UID, {IDMAP_REQ_FLG_NO_NEW_ID_ALLOC}),
     Req(SidGhost, IDMAP_UID, {})}

\* The rule table after add_namerule was called with the rules of rules.
RECURSIVE RuleTable(_)
RuleTable(rules) ==
    IF rules = <<>> THEN {}
    ELSE add_namerule(RuleTable(SubSeq(rules, 1, Len(rules) - 1)),
                      rules[Len(rules)],
                      <<namerules_w2u, namerules_u2w>>).db

PidRuleTables ==
    {RuleTable(<<>>),
     RuleTable(<<Rule(alice, CORP, bob, IDMAP_DIRECTION_U2W)>>),
     RuleTable(<<Rule(dave, CORP, bob, IDMAP_DIRECTION_U2W)>>),
     RuleTable(<<Rule(STAR, CORP, STAR, IDMAP_DIRECTION_BI)>>)}

InitPid ==
    /\ FreshWindows /\ NoObservations /\ NoEnv /\ NoThreads /\ NoOrder
    /\ idmap_cache = {} /\ name_cache = {}
    /\ namerules \in PidRuleTables
    /\ now = 1
    /\ batch = <<>> /\ result = <<>> /\ trace = <<>>
    /\ lookup_state = NoState
    /\ phase = "idle"
    /\ minted = {}
    /\ nbatches = 0 /\ nticks = 0

\* The first pass of an id-to-SID item.
PidFirstPass ==
    /\ phase = "first"
    /\ \E i \in {lookup_state.curpos + 1} :
       /\ ~IS_BATCH_SID(batch, i)
       /\ \E ord \in SortedRowsU2W(namerules), ns \in {"up", "err"}, net \in NetRuns :
          \E p \in {pid2sid_first_pass(lookup_state, idmap_cache, name_cache,
                        ord, batch[i], result[i],
                        IF batch[i].id1type = IDMAP_UID THEN 1 ELSE 0, 0,
                        ns, net, now)} :
          LET last == i = Len(batch)
          IN  /\ batch' = [batch EXCEPT ![i] = p.req]
              /\ result' = [result EXCEPT ![i] = p.res]
              /\ trace' = [trace EXCEPT ![i] = p.path]
              /\ lookup_state' = [p.state EXCEPT
                                    !.curpos = IF last THEN 0 ELSE i]
              /\ phase' = IF ~last THEN "first"
                          ELSE IF /\ p.state.sid2pid_done
                                  /\ p.state.pid2sid_done
                          THEN "done" ELSE "ad"
    /\ UNCHANGED <<envVars, allocVars, obsVars, concVars, ordVars, idmap_cache,
                   name_cache, namerules, now, minted, nbatches, nticks>>

\* The second pass leaves an id-to-SID item alone.
PidSecondPass ==
    /\ phase = "second"
    /\ \E i \in {lookup_state.curpos + 1} :
       /\ ~IS_BATCH_SID(batch, i)
       /\ LET last == i = Len(batch)
          IN  /\ lookup_state' = [lookup_state EXCEPT
                                    !.curpos = IF last THEN 0 ELSE i,
                                    !.sid2pid_done = IF last THEN TRUE ELSE @,
                                    !.pid2sid_done = IF last THEN TRUE ELSE @]
              /\ phase' = IF ~last THEN "second"
                          ELSE IF /\ lookup_state.sid2pid_done
                                  /\ lookup_state.pid2sid_done
                          THEN "done" ELSE "update"
    /\ UNCHANGED <<envVars, allocVars, obsVars, concVars, ordVars, idmap_cache,
                   name_cache, namerules, now, batch, result, trace, minted,
                   nbatches, nticks>>

PidUpdateCache ==
    /\ phase = "update"
    /\ \E i \in {lookup_state.curpos + 1} :
       /\ ~IS_BATCH_SID(batch, i)
       /\ \E u \in {update_cache_pid2sid(lookup_state, idmap_cache,
                                         name_cache, batch[i], result[i],
                                         now)} :
          LET last == i = Len(batch)
          IN  /\ idmap_cache' = u.cache
              /\ name_cache' = u.ncache
              /\ lookup_state' = [u.state EXCEPT
                                    !.curpos = IF last THEN 0 ELSE i]
              /\ phase' = IF last THEN "done" ELSE "update"
    /\ UNCHANGED <<envVars, allocVars, obsVars, concVars, ordVars, namerules, now,
                   batch, result, trace, minted, nbatches, nticks>>

NextPid ==
    \/ StartBatch(MixedRequests)
    \/ FirstPass
    \/ PidFirstPass
    \/ DirectoryRound(NetUp)
    \/ SecondPass
    \/ PidSecondPass
    \/ UpdateCache
    \/ PidUpdateCache
    \/ EndBatch
    \/ Tick

SpecPid == InitPid /\ [][NextPid]_vars

(***************************************************************************)
(* SpecBusy: a worker's store operation and the busy handler.  The worker  *)
(* has a handle of its own on each store, with idmap_sqlite_busy_handler   *)
(* installed on it.  The store library calls the handler each time it      *)
(* finds the file locked by another connection, with the number of the     *)
(* attempt (from 1), and tries again if the handler returns non-zero; it   *)
(* gives the operation up with SQLITE_BUSY if the handler returns 0.       *)
(***************************************************************************)
cache_delay_table ==
    <<1, 2, 5, 10, 15, 20, 25, 30, 35, 40, 50, 50, 60, 70, 80, 90, 100>>

db_delay_table == <<5, 10, 15, 20, 30, 40, 55, 70, 100>>

SQLITE_OK == "SQLITE_OK"
SQLITE_BUSY == "SQLITE_BUSY"

\* struct idmap_busy as get_db_handle and get_cache_handle set it up
idmap_busy(name, delays) ==
    [name |-> name, delays |-> delays, delay_size |-> Len(delays),
     total |-> 0, sec |-> 0]

\* The delay the handler picks for the attempt count.
busy_delay(b, count) ==
    IF count <= b.delay_size THEN b.delays[count]
    ELSE b.delays[b.delay_size]

\* ... once the first attempt has reset the counters
busy_reset(b, count) ==
    IF count = 1 THEN [b EXCEPT !.total = 0, !.sec = 2] ELSE b

\* ... once a wait longer than sec seconds has been logged
busy_logged(b) ==
    IF b.total > 1000 * b.sec THEN [b EXCEPT !.sec = @ + 1] ELSE b

\* A variant of the handler that gives up once the delay table is used up.
idmap_sqlite_busy_handler_giveup(b, count) ==
    [busy |-> [busy_logged(busy_reset(b, count)) EXCEPT
                 !.total = @ + busy_delay(b, count)],
     delay |-> busy_delay(b, count),
     ret |-> IF count <= b.delay_size THEN 1 ELSE 0]

\* idmap_sqlite_busy_handler(arg, table_name, count): the structure after
\* the call, the time slept and the value returned.
idmap_sqlite_busy_handler(b, count) ==
    [busy |-> [busy_logged(busy_reset(b, count)) EXCEPT
                 !.total = @ + busy_delay(b, count)],
     delay |-> busy_delay(b, count),
     ret |-> 1]

MaxBusyOps == 2
MaxBusyCount == 32

BusyStores == {"db", "cache"}

InitBusy ==
    /\ FreshWindows /\ NoObservations /\ NoThreads /\ NoOrder /\ NoBatch
    /\ startup = [pc |-> "none"]
    /\ busy = [pc |-> "idle", store |-> "db", count |-> 0, slept |-> <<>>,
               ret |-> 1, rc |-> SQLITE_OK, ops |-> 0,
               hdl |-> [db |-> idmap_busy("idmap.db", db_delay_table),
                        cache |-> idmap_busy("idmap.cache",
                                             cache_delay_table)]]

\* The worker issues a statement through its handle on store.
BusyExec ==
    /\ busy.pc = "idle"
    /\ busy.ops < MaxBusyOps
    /\ \E store \in BusyStores :
          busy' = [busy EXCEPT !.pc = "exec", !.store = store, !.count = 0,
                               !.slept = <<>>, !.ops = @ + 1]
    /\ UNCHANGED <<allocVars, obsVars, concVars, ordVars, mapVars, startup>>

\* The store finds the file locked and calls the handler.
BusyLocked ==
    /\ busy.pc = "exec"
    /\ busy.count < MaxBusyCount
    /\ \E h \in {idmap_sqlite_busy_handler(busy.hdl[busy.store],
                                           busy.count + 1)} :
          busy' = [busy EXCEPT
                     !.hdl[busy.store] = h.busy,
                     !.count = @ + 1,
                     !.slept = Append(@, h.delay),
                     !.ret = h.ret,
                     !.pc = IF h.ret = 0 THEN "done" ELSE "exec",
                     !.rc = IF h.ret = 0 THEN SQLITE_BUSY ELSE @]
    /\ UNCHANGED <<allocVars, obsVars, concVars, ordVars, mapVars, startup>>

\* The store gets the lock and carries the statement out.
BusyGranted ==
    /\ busy.pc = "exec"
    /\ busy' = [busy EXCEPT !.pc = "done", !.rc = SQLITE_OK]
    /\ UNCHANGED <<allocVars, obsVars, concVars, ordVars, mapVars, startup>>

\* sql_exec_no_cb returns.
BusyReturn ==
    /\ busy.pc = "done"
    /\ busy' = [busy EXCEPT !.pc = "idle"]
    /\ UNCHANGED <<allocVars, obsVars, concVars, ordVars, mapVars, startup>>

NextBusy == BusyExec \/ BusyLocked \/ BusyGranted \/ BusyReturn

SpecBusy == InitBusy /\ [][NextBusy]_vars

\* The delay table of a store, and the entry the n-th retry is to sleep.
DelayTable(store) ==
    IF store = "cache" THEN cache_delay_table ELSE db_delay_table

NthDelay(store, n) ==
    IF n <= Len(DelayTable(store)) THEN DelayTable(store)[n]
    ELSE DelayTable(store)[Len(DelayTable(store))]

\* C23: the busy handler tells the store to retry at every invocation,
\* whatever the count, so that a store operation issued through a worker's
\* handle never completes busy; the sleep before retry n is the n-th entry
\* of the store's delay table, and the last entry once the table is used
\* up.
C23_AlwaysRetry ==
    /\ busy.ret = 1
    /\ busy.pc \in {"done", "idle"} => busy.rc = SQLITE_OK
    /\ Len(busy.slept) = busy.count
    /\ \A n \in 1..Len(busy.slept) :
          busy.slept[n] = NthDelay(busy.store, n)

\* An operation on the cache store that went through after more retries
\* than its table has entries, the wait having been logged.
C23_Witness ==
    /\ busy.pc = "done" /\ busy.store = "cache"
    /\ busy.rc = SQLITE_OK
    /\ busy.count > Len(cache_delay_table) + 1
    /\ busy.hdl.cache.sec > 2

(***************************************************************************)
(* SpecSup: one SID served over a long time.  Between the batches the      *)
(* clock moves on and the administrator adds and removes the rule that     *)
(* maps the SID's account to a Unix user.                                  *)
(***************************************************************************)
\* The length of a string argument (idmap_utf8str_len).
utf8str_len(s) == IF s = NULL THEN 0 ELSE Len(s)

\* rm_namerule's WHERE clause on the row r.
rm_namerule_where(r, rule) ==
    /\ r.is_user = (IF rule.is_user # 0 THEN 1 ELSE 0)
    /\ utf8str_len(rule.windomain) > 0 => r.windomain = rule.windomain
    /\ utf8str_len(rule.winname) > 0 => r.winname = rule.winname
    /\ utf8str_len(rule.unixname) > 0 => r.unixname = rule.unixname
    /\ rule.direction = IDMAP_DIRECTION_BI
          => r.w2u_order > 0 /\ r.u2w_order > 0
    /\ rule.direction = IDMAP_DIRECTION_W2U
          => r.w2u_order > 0 /\ r.u2w_order = 0
    /\ rule.direction = IDMAP_DIRECTION_U2W
          => r.u2w_order > 0 /\ r.w2u_order = 0

rm_namerule(db, rule) ==
    IF /\ rule.direction = IDMAP_DIRECTION_UNDEF
       /\ utf8str_len(rule.windomain) < 1
       /\ utf8str_len(rule.winname) < 1
       /\ utf8str_len(rule.unixname) < 1
    THEN [retcode |-> IDMAP_SUCCESS, db |-> db]
    ELSE [retcode |-> IDMAP_SUCCESS,
          db |-> {r \in db : ~rm_namerule_where(r, rule)}]

MaxSupBatches == 5
MaxSupTicks == 3

SupRequests ==
    {Req(SidAlice, IDMAP_UID, {}),
     Req(SidAlice, IDMAP_UID, {IDMAP_REQ_FLG_NO_NEW_ID_ALLOC}),
     Req(SidAlice, IDMAP_GID, {})}

\* The rules the administrator adds: two that map alice to bob, and one
\* that maps every account of the domain to the Unix user of its name
\* (there is no Unix user alice).
SupRules ==
    {Rule(alice, CORP, bob, IDMAP_DIRECTION_W2U),
     Rule(alice, CORP, bob, IDMAP_DIRECTION_BI),
     Rule(STAR, CORP, STAR, IDMAP_DIRECTION_W2U)}

\* The batch driver's prologue for a batch of one request.
SupStartBatch ==
    /\ phase = "idle"
    /\ nbatches < MaxSupBatches
    /\ \E r \in SupRequests :
          /\ batch' = <<r>>
          /\ result' = <<ZeroRes>>
          /\ trace' = <<"none">>
          /\ lookup_state' = [sid2pid_done |-> TRUE, pid2sid_done |-> TRUE,
                       ad_nqueries |-> 0,
                       sid_history |-> [s \in {0} |-> [key |-> 1, next |-> 1]],
                       sid_history_size |-> 1,
                       curpos |-> 0, hash |-> [s \in {r.id1} |-> 0],
                       ad |-> NoRound]
    /\ phase' = "first"
    /\ nbatches' = nbatches + 1
    /\ UNCHANGED <<envVars, allocVars, obsVars, concVars, ordVars,
                   idmap_cache, name_cache, namerules, now, minted, nticks>>

SupTick ==
    /\ phase = "idle"
    /\ nbatches < MaxSupBatches
    /\ idmap_cache # {}
    /\ nticks < MaxSupTicks
    /\ now' = now + IDMAP_CACHE_TTL
    /\ nticks' = nticks + 1
    /\ UNCHANGED <<envVars, allocVars, obsVars, concVars, ordVars,
                   idmap_cache, name_cache, namerules, batch, result,
                   lookup_state, phase, trace, minted, nbatches>>

SupAddNamerule ==
    /\ phase = "idle"
    /\ nbatches < MaxSupBatches
    /\ namerules = {}
    /\ \E rule \in SupRules :
          namerules' = add_namerule(namerules, rule,
                                    <<namerules_w2u, namerules_u2w>>).db
    /\ UNCHANGED <<envVars, allocVars, obsVars, concVars, ordVars,
                   idmap_cache, name_cache, now, batch, result, lookup_state,
                   phase, trace, minted, nbatches, nticks>>

SupRmNamerule ==
    /\ phase = "idle"
    /\ nbatches < MaxSupBatches
    /\ namerules # {}
    /\ \E rule \in SupRules :
          /\ rm_namerule(namerules, rule).db # namerules
          /\ namerules' = rm_namerule(namerules, rule).db
    /\ UNCHANGED <<envVars, allocVars, obsVars, concVars, ordVars,
                   idmap_cache, name_cache, now, batch, result, lookup_state,
                   phase, trace, minted, nbatches, nticks>>

NextSup ==
    \/ SupStartBatch
    \/ FirstPass
    \/ DirectoryRound(NetUp)
    \/ SecondPass
    \/ UpdateCache
    \/ EndBatch
    \/ SupTick
    \/ SupAddNamerule
    \/ SupRmNamerule

SpecSup == Init /\ [][NextSup]_vars

(***************************************************************************)
(* SpecInit: the daemon's start-up.  init_dbs sets up the rule store and   *)
(* the cache store with init_db_instance.  A store file is absent, a good  *)
(* store, or corrupt; the store library cannot open a corrupt file, and    *)
(* may fail to open or create any file (no space, no permission).          *)
(***************************************************************************)
FAIL_IF_CORRUPT == "FAIL_IF_CORRUPT"
REMOVE_IF_CORRUPT == "REMOVE_IF_CORRUPT"

FileStates == {"absent", "good", "corrupt"}

\* sqlite_open(dbname, 0600, &str) on a file in state file, the system
\* letting it through or not: a handle or NULL.
sqlite_open(file, allowed) == allowed /\ file # "corrupt"

\* A variant of the open loop that removes the file whatever opt says.
db_open_loop_remove(file, opt, opens, tries) ==
    IF sqlite_open(file, opens[1])
    THEN [db |-> TRUE, fresh |-> file = "absent", file |-> "good",
          tries |-> 0]
    ELSE [db |-> sqlite_open("absent", opens[2]), fresh |-> TRUE,
          file |-> IF sqlite_open("absent", opens[2]) THEN "good"
                   ELSE "absent",
          tries |-> 1]

\* init_db_instance's loop around sqlite_open: opens holds what the system
\* allows at each attempt, tries is the loop's counter.  The result says
\* whether a handle was got, whether the file was created by the open, the
\* state of the file and the value of tries.
RECURSIVE db_open_loop(_, _, _, _)
db_open_loop(file, opt, opens, tries) ==
    IF sqlite_open(file, opens[tries + 1])
    THEN [db |-> TRUE, fresh |-> file = "absent", file |-> "good",
          tries |-> tries]
    ELSE IF opt = FAIL_IF_CORRUPT \/ opt # REMOVE_IF_CORRUPT \/ tries > 0
    THEN [db |-> FALSE, fresh |-> FALSE, file |-> file, tries |-> tries]
    ELSE \* tries++; unlink(dbname); sqlite_open again
         db_open_loop("absent", opt, opens, tries + 1)

\* The result of the CREATE statements: tables that exist make them fail
\* with SQLITE_ERROR, a fresh file takes them; the store may fail otherwise.
db_create(o, exec) ==
    IF exec # "normal" THEN "SQLITE_OTHER"
    ELSE IF o.fresh THEN "SQLITE_OK" ELSE "SQLITE_ERROR"

\* init_db_instance after the open loop has ended as o says.  begin and
\* end are the return codes of BEGIN TRANSACTION and of COMMIT or ROLLBACK.
\* The result holds the return value, *new_db_created, the file
\* afterwards, and for the record the value of tries and whether a handle
\* was got.
db_instance_opened(o, begin, exec, end) ==
    IF ~o.db
    THEN [ret |-> -1, new_db_created |-> 0, file |-> o.file,
          tries |-> o.tries, db |-> FALSE]
    ELSE IF begin # 0
    THEN [ret |-> 1, new_db_created |-> 0, file |-> o.file,
          tries |-> o.tries, db |-> TRUE]
    ELSE [ret |-> end,
          new_db_created |-> IF db_create(o, exec) = "SQLITE_OK" THEN 1
                             ELSE 0,
          file |-> o.file, tries |-> o.tries, db |-> TRUE]

\* init_db_instance(dbname, sql, opt, new_db_created) in the environment
\* env: what the system allows at each open, and how the statements end.
init_db_instance(file, opt, env) ==
    db_instance_opened(db_open_loop(file, opt, env.opens, 0),
                       env.begin, env.exec, env.end)

\* The store has not been set up.
NoInstance ==
    [ret |-> 0, new_db_created |-> 0, file |-> "absent", tries |-> 0,
     db |-> FALSE]

\* init_dbs() once the rule store has been set up as d and the cache store,
\* if it came to that, as c.
init_dbs(d, c) ==
    IF d.ret < 0 THEN -1
    ELSE IF c.ret < 0 THEN -1
    ELSE 0

\* The return codes of a statement: SQLITE_OK, SQLITE_ERROR.
SqliteRc == {0, 1}

DbEnv ==
    [opens : [1..2 -> BOOLEAN], begin : SqliteRc,
     exec : {"normal", "other"}, end : SqliteRc]

MaxStarts == 2

InitInit ==
    /\ FreshWindows /\ NoObservations /\ NoThreads /\ NoOrder /\ NoBatch
    /\ busy = [pc |-> "none"]
    /\ \E f \in [db : FileStates, cache : FileStates] :
          startup = [pc |-> "start", files |-> f, files0 |-> f,
                     starts |-> 0, ret |-> 0, db |-> NoInstance,
                     cache |-> NoInstance]

\* The daemon calls init_dbs.
InitDbs ==
    /\ startup.pc = "start"
    /\ \E edb \in DbEnv, ecache \in DbEnv :
       \E d \in {init_db_instance(startup.files.db, FAIL_IF_CORRUPT, edb)} :
       \E c \in {IF d.ret < 0 THEN NoInstance
                 ELSE init_db_instance(startup.files.cache,
                                       REMOVE_IF_CORRUPT, ecache)} :
          startup' = [startup EXCEPT
                        !.pc = "done",
                        !.files0 = startup.files,
                        !.files = [db |-> d.file,
                                   cache |-> IF d.ret < 0
                                             THEN startup.files.cache
                                             ELSE c.file],
                        !.ret = init_dbs(d, c),
                        !.db = d, !.cache = c]
    /\ UNCHANGED <<allocVars, obsVars, concVars, ordVars, mapVars, busy>>

\* The daemon is started again on the files as they are, or after a store
\* file was damaged.
Restart ==
    /\ startup.pc = "done"
    /\ startup.starts < MaxStarts
    /\ \E f \in {startup.files,
                 [startup.files EXCEPT !.cache = "corrupt"],
                 [startup.files EXCEPT !.db = "corrupt"]} :
          startup' = [startup EXCEPT !.pc = "start", !.files = f,
                                     !.starts = @ + 1]
    /\ UNCHANGED <<allocVars, obsVars, concVars, ordVars, mapVars, busy>>

NextInit == InitDbs \/ Restart

SpecInit == InitInit /\ [][NextInit]_vars

\* C25: when the rule store cannot be opened, init_dbs fails and the file
\* is not removed (a single open, no unlink, the file as it was).  When the
\* cache store cannot be opened, the file is removed and the open retried
\* exactly once (tries counts the unlinks), and init_dbs fails only if the
\* second open fails too.
C25_OpenFailure ==
    startup.pc = "done" =>
        /\ ~startup.db.db
              => /\ startup.ret = -1
                 /\ startup.db.tries = 0
                 /\ startup.files.db = startup.files0.db
        /\ startup.db.db => startup.db.tries = 0
        /\ (startup.db.ret >= 0 /\ startup.cache.tries > 0)
              => /\ startup.cache.tries = 1
                 /\ startup.ret = -1 <=> ~startup.cache.db
                 /\ ~startup.cache.db => startup.files.cache = "absent"
        /\ (startup.db.ret >= 0 /\ ~startup.cache.db)
              => startup.cache.tries = 1

\* A start-up that found the cache store corrupt, removed it and created a
\* new one.
C25_Witness ==
    /\ startup.pc = "done"
    /\ startup.db.db /\ startup.db.tries = 0
    /\ startup.files0.cache = "corrupt"
    /\ startup.cache.tries = 1 /\ startup.cache.db
    /\ startup.cache.new_db_created = 1
    /\ startup.files.cache = "good"
    /\ startup.ret = 0

(***************************************************************************)
(* SpecHist: the SID history of one batch on its own.  The items of the    *)
(* batch are taken in order; an item either is resolved without the        *)
(* history or comes to the ephemeral stage, where the history is looked up *)
(* and, on a miss, the item gets an id of its own and is added.  The hash  *)
(* values of the SIDs are arbitrary.                                       *)
(***************************************************************************)
HistLen == 4

HistSids == {SidAlice, SidFoo, SidBob}

\* The id the item k is given at the ephemeral stage.
HistId(k) == U32Add(EphBase, k)

InitHist ==
    /\ FreshWindows /\ NoObservations /\ NoEnv /\ NoThreads /\ NoOrder
    /\ idmap_cache = {} /\ name_cache = {} /\ namerules = {}
    /\ now = 1
    /\ batch \in [1..HistLen -> {Req(s, IDMAP_UID, {}) : s \in HistSids}]
    /\ result = [k \in 1..HistLen |-> ZeroRes]
    /\ trace = [k \in 1..HistLen |-> "none"]
    /\ \E h \in [HistSids -> 0..(HistLen - 1)] :
          lookup_state = [NoState EXCEPT
                            !.sid_history =
                                [s \in 0..(HistLen - 1) |->
                                    [key |-> HistLen, next |-> HistLen]],
                            !.sid_history_size = HistLen,
                            !.hash = h]
    /\ phase = "hist"
    /\ minted = {}
    /\ nbatches = 0 /\ nticks = 0

\* The item is resolved without the history.
HistSkip ==
    /\ phase = "hist"
    /\ lookup_state.curpos < HistLen
    /\ \E k \in {lookup_state.curpos + 1} :
          /\ result' = [result EXCEPT ![k].id = U32(0, 100)]
          /\ trace' = [trace EXCEPT ![k] = "name"]
          /\ lookup_state' = [lookup_state EXCEPT !.curpos = k]
    /\ UNCHANGED <<envVars, allocVars, obsVars, concVars, ordVars,
                   idmap_cache, name_cache, namerules, now, batch, phase,
                   minted, nbatches, nticks>>

\* The item comes to the ephemeral stage: the history is looked up and, on
\* a miss, the item gets a new id and is added to the history.
HistMap ==
    /\ phase = "hist"
    /\ lookup_state.curpos < HistLen
    /\ \E k \in {lookup_state.curpos + 1} :
       \E g \in {get_from_sid_history(lookup_state, batch, result,
                                      batch[k].id1)} :
          IF g.found
          THEN /\ result' = [result EXCEPT ![k].id = g.pid]
               /\ trace' = [trace EXCEPT ![k] = "eph_hist"]
               /\ lookup_state' = [lookup_state EXCEPT !.curpos = k]
          ELSE /\ result' = [result EXCEPT ![k].id = HistId(k)]
               /\ trace' = [trace EXCEPT ![k] = "eph_mint"]
               /\ lookup_state' =
                     [add_to_sid_history(lookup_state, batch[k].id1)
                         EXCEPT !.curpos = k]
    /\ UNCHANGED <<envVars, allocVars, obsVars, concVars, ordVars,
                   idmap_cache, name_cache, namerules, now, batch, phase,
                   minted, nbatches, nticks>>

NextHist == HistSkip \/ HistMap

SpecHist == InitHist /\ [][NextHist]_vars

\* The chain that starts at slot next ends within n steps.
RECURSIVE ChainEnds(_, _)
ChainEnds(next, n) ==
    \/ next = lookup_state.sid_history_size
    \/ /\ n > 0
       /\ ChainEnds(lookup_state.sid_history[next].next, n - 1)

\* The items that were added to the history for the SID sid.
AddedFor(sid) ==
    {k \in 1..lookup_state.curpos :
        trace[k] = "eph_mint" /\ batch[k].id1 = sid}

\* C26: whatever the hash values and however many entries went to another
\* slot than their own, the chains of next links are acyclic (a lookup
\* terminates), get_from_sid_history finds every SID that was added and
\* gives the id of the item that added it, and it reports a SID that was
\* never added as not found.
C26_HistoryFinds ==
    phase = "hist" =>
        /\ \A s \in 0..(HistLen - 1) : ChainEnds(s, HistLen)
        /\ \A sid \in HistSids :
              \E g \in {get_from_sid_history(lookup_state, batch, result,
                                             sid)} :
                 /\ g.found <=> AddedFor(sid) # {}
                 /\ \A k \in AddedFor(sid) : g.pid = HistId(k)

\* Three SIDs were added, the second one went to the slot of the third
\* (both hash to other slots than they sit in), and a slot is still free.
C26_Witness ==
    /\ phase = "hist"
    /\ lookup_state.curpos = 3
    /\ \A k \in 1..3 : trace[k] = "eph_mint"
    /\ gethash(lookup_state, batch[1].id1) = gethash(lookup_state, batch[2].id1)
    /\ gethash(lookup_state, batch[3].id1)
          = (gethash(lookup_state, batch[1].id1) + 1) % HistLen
    /\ get_from_sid_history(lookup_state, batch, result, batch[3].id1).found

(***************************************************************************)
(* SpecFlags: the daemon serving SID-to-id batches whose requests carry    *)
(* flags, names, or a type that the directory contradicts.                 *)
(***************************************************************************)
\* A request that arrives with the name and the domain of its SID.
NamedReq(sid, idtype, name, domain) ==
    [Req(sid, idtype, {}) EXCEPT !.id1name = name, !.id1domain = domain]

FlagRequests ==
    {Req(SidFoo, IDMAP_UID, {}),
     Req(SidFoo, IDMAP_UID, {IDMAP_REQ_FLG_NO_NEW_ID_ALLOC}),
     Req(SidFoo, IDMAP_UID, {IDMAP_REQ_FLG_NO_NAMESERVICE}),
     Req(SidAlice, IDMAP_GID, {}),
     NamedReq(SidAlice, IDMAP_UID, alice, CORP),
     Req(SidGhost, IDMAP_UID, {}),
     Req(SidAdmins, IDMAP_UID, {}),
     Req(SidEveryone, IDMAP_GID, {}),
     Req(SidCreatorOwner, IDMAP_UID, {})}

NextFlags ==
    \/ StartBatch(FlagRequests)
    \/ FirstPass
    \/ DirectoryRound(NetUp)
    \/ SecondPass
    \/ UpdateCache
    \/ EndBatch
    \/ Tick

SpecFlags == Init /\ [][NextFlags]_vars

(***************************************************************************)
(* SpecLocal: the daemon serving batches that hold SIDs of this machine.   *)
(***************************************************************************)
\* <machine-sid>-<rid>
LocalSid(hi, lo) == [prefix |-> machine_sid, rid |-> U32(hi, lo)]

LocalRequests ==
    {Req(LocalSid(0, 1100), IDMAP_UID, {}),
     Req(LocalSid(0, 1100), IDMAP_GID, {}),
     Req(LocalSid(0, 1100), IDMAP_POSIXID, {}),
     Req(LocalSid(1, 10), IDMAP_GID, {}),
     Req(LocalSid(1, 10), IDMAP_UID, {}),
     Req(LocalSid(0, 999), IDMAP_UID, {}),
     Req(LocalSid(0, INT32_MAX), IDMAP_UID, {}),
     Req(SidFoo, IDMAP_UID, {})}

NextLocal ==
    \/ StartBatch(LocalRequests)
    \/ FirstPass
    \/ DirectoryRound(NetUp)
    \/ SecondPass
    \/ UpdateCache
    \/ EndBatch
    \/ Tick

SpecLocal == Init /\ [][NextLocal]_vars

(***************************************************************************)
(* SpecPidLocal: the daemon serving batches of id-to-SID requests, with    *)
(* ids that no rule maps.                                                  *)
(***************************************************************************)
PidLocalRequests ==
    {PidRequest(U32(0, 100), IDMAP_UID, NULL, {}),
     PidRequest(U32(0, 200), IDMAP_UID, NULL, {}),
     PidRequest(U32(0, 200), IDMAP_UID, bob, {}),
     PidRequest(U32(0, 10), IDMAP_GID, NULL, {}),
     PidRequest(U32(0, 20), IDMAP_GID, NULL, {}),
     PidRequest(BigUid, IDMAP_UID, NULL, {}),
     PidRequest(U32(0, 100), IDMAP_UID, NULL, {IDMAP_REQ_FLG_NO_NEW_ID_ALLOC}),
     PidRequest(U32(0, 10), IDMAP_GID, NULL, {IDMAP_REQ_FLG_NO_NAMESERVICE}),
     PidRequest(U32Add(EphBase, 5), IDMAP_UID, NULL, {}),
     PidRequest(U32Add(EphBase, 7), IDMAP_GID, NULL, {})}

NextPidLocal ==
    \/ StartBatch(PidLocalRequests)
    \/ PidFirstPass
    \/ DirectoryRound(NetUp)
    \/ PidSecondPass
    \/ PidUpdateCache
    \/ EndBatch
    \/ Tick

SpecPidLocal == InitPid /\ [][NextPidLocal]_vars

(***************************************************************************)
(* SpecTrip: generate_localsid applied to an id, then lookup_localsid2pid  *)
(* applied to the SID it gave.                                             *)
(***************************************************************************)
TripSpan == 2               \* ids taken on each side of a boundary value

TripLows ==
    {d : d \in 0..TripSpan}
      \cup {LOCALRID_MIN - TripSpan + d : d \in 0..(2 * TripSpan)}
      \cup {INT32_MAX - LOCALRID_MIN - TripSpan + d : d \in 0..(2 * TripSpan)}
      \cup {INT32_MAX - TripSpan + d : d \in 0..TripSpan}

TripIds == {U32(0, lo) : lo \in TripLows}

InitTrip ==
    /\ FreshWindows /\ NoObservations /\ NoEnv /\ NoThreads /\ NoOrder
    /\ idmap_cache = {} /\ name_cache = {} /\ namerules = {}
    /\ now = 0
    /\ \E id \in TripIds, t \in {IDMAP_UID, IDMAP_GID} :
          batch = <<PidRequest(id, t, NULL, {})>>
    /\ result = <<[ZeroRes EXCEPT !.idtype = IDMAP_SID]>>
    /\ trace = <<"none">>
    /\ lookup_state = NoState
    /\ phase = "trip"
    /\ minted = {}
    /\ nbatches = 0 /\ nticks = 0

\* generate_localsid for the id of the request
TripGenerate ==
    /\ phase = "trip"
    /\ \E g \in {generate_localsid(batch[1], result[1],
                    IF batch[1].id1type = IDMAP_UID THEN 1 ELSE 0)} :
          /\ batch' = <<g.req>>
          /\ result' = <<[g.res EXCEPT !.retcode = g.retcode]>>
    /\ phase' = "generated"
    /\ UNCHANGED <<envVars, allocVars, obsVars, concVars, ordVars, idmap_cache,
                   name_cache, namerules, now, lookup_state, trace, minted,
                   nbatches, nticks>>

\* lookup_localsid2pid for the SID generated, asked for as the type of the
\* id or as any posix id
TripDecode ==
    /\ phase = "generated"
    /\ result[1].retcode = IDMAP_SUCCESS
    /\ \E t \in {batch[1].id1type, IDMAP_POSIXID} :
       \E l \in {lookup_localsid2pid(Req(result[1].id, t, {}),
                    [ZeroRes EXCEPT !.idtype = t, !.id = UID_NOBODY])} :
          /\ batch' = Append(batch, Req(result[1].id, t, {}))
          /\ result' = Append(result, [l.res EXCEPT !.retcode = l.retcode])
          /\ trace' = Append(trace, "local")
    /\ phase' = "decoded"
    /\ UNCHANGED <<envVars, allocVars, obsVars, concVars, ordVars, idmap_cache,
                   name_cache, namerules, now, lookup_state, minted,
                   nbatches, nticks>>

NextTrip ==
    \/ TripGenerate
    \/ TripDecode

SpecTrip == InitTrip /\ [][NextTrip]_vars

(***************************************************************************)
(* SpecStale: one SID asked for again and again, as a uid and as a gid,    *)
(* while its ephemeral mapping expires and rules that give no mapping are  *)
(* added.                                                                  *)
(***************************************************************************)
MaxStaleBatches == 3
MaxStaleTicks == 2

StaleRequests ==
    {Req(SidAlice, IDMAP_UID, {}),
     Req(SidAlice, IDMAP_GID, {}),
     NamedReq(SidAlice, IDMAP_GID, alice, CORP),
     Req(SidEveryone, IDMAP_GID, {}),
     Req(SidEveryone, IDMAP_UID, {})}

\* The rules the administrator adds: alice is to be dave, a Unix user that
\* does not exist; alice is to have no mapping; alice is to be bob.
StaleRules ==
    {Rule(alice, CORP, dave, IDMAP_DIRECTION_W2U),
     Rule(alice, CORP, EMPTY, IDMAP_DIRECTION_W2U),
     Rule(alice, CORP, bob, IDMAP_DIRECTION_W2U)}

\* The batch driver's prologue for a batch of one request.
StaleStartBatch ==
    /\ phase = "idle"
    /\ nbatches < MaxStaleBatches
    /\ \E r \in StaleRequests :
          /\ batch' = <<r>>
          /\ result' = <<ZeroRes>>
          /\ trace' = <<"none">>
          /\ lookup_state' = [sid2pid_done |-> TRUE, pid2sid_done |-> TRUE,
                       ad_nqueries |-> 0,
                       sid_history |-> [s \in {0} |-> [key |-> 1, next |-> 1]],
                       sid_history_size |-> 1,
                       curpos |-> 0, hash |-> [s \in {r.id1} |-> 0],
                       ad |-> NoRound]
    /\ phase' = "first"
    /\ nbatches' = nbatches + 1
    /\ UNCHANGED <<envVars, allocVars, obsVars, concVars, ordVars,
                   idmap_cache, name_cache, namerules, now, minted, nticks>>

StaleTick ==
    /\ phase = "idle"
    /\ nbatches < MaxStaleBatches
    /\ idmap_cache # {}
    /\ nticks < MaxStaleTicks
    /\ now' = now + IDMAP_CACHE_TTL
    /\ nticks' = nticks + 1
    /\ UNCHANGED <<envVars, allocVars, obsVars, concVars, ordVars,
                   idmap_cache, name_cache, namerules, batch, result,
                   lookup_state, phase, trace, minted, nbatches>>

StaleAddNamerule ==
    /\ phase = "idle"
    /\ nbatches < MaxStaleBatches
    /\ namerules = {}
    /\ \E rule \in StaleRules :
          namerules' = add_namerule(namerules, rule,
                                    <<namerules_w2u, namerules_u2w>>).db
    /\ UNCHANGED <<envVars, allocVars, obsVars, concVars, ordVars,
                   idmap_cache, name_cache, now, batch, result, lookup_state,
                   phase, trace, minted, nbatches, nticks>>

NextStale ==
    \/ StaleStartBatch
    \/ FirstPass
    \/ DirectoryRound(NetUp)
    \/ SecondPass
    \/ UpdateCache
    \/ EndBatch
    \/ StaleTick
    \/ StaleAddNamerule

SpecStale == Init /\ [][NextStale]_vars

(***************************************************************************)
(* SpecWk: lookup_wksids_pid2sid applied to an id of either type.          *)
(***************************************************************************)
WkSpan == 4                 \* ids taken next to each boundary value

WkIds ==
    {U32(0, d) : d \in 0..WkSpan}
      \cup {U32(0, 60001 - 1 + d) : d \in 0..2}
      \cup {U32(1, d) : d \in 0..WkSpan}
      \cup {U32(1, INT32_MAX - d) : d \in 0..WkSpan}

InitWk ==
    /\ FreshWindows /\ NoObservations /\ NoEnv /\ NoThreads /\ NoOrder
    /\ idmap_cache = {} /\ name_cache = {} /\ namerules = {}
    /\ now = 0
    /\ \E id \in WkIds, t \in {IDMAP_UID, IDMAP_GID} :
       \E want \in {IDMAP_SID, IDMAP_POSIXID} :
          batch = <<[PidRequest(id, t, NULL, {}) EXCEPT !.id2type = want]>>
    /\ result = <<[ZeroRes EXCEPT !.idtype = IDMAP_SID]>>
    /\ trace = <<"none">>
    /\ lookup_state = NoState
    /\ phase = "wk"
    /\ minted = {}
    /\ nbatches = 0 /\ nticks = 0

\* lookup_wksids_pid2sid for the id of the request, is_user as
\* pid2sid_first_pass's caller derives it from the type of the id
WkLookup ==
    /\ phase = "wk"
    /\ \E w \in {lookup_wksids_pid2sid(batch[1], result[1],
                    IF batch[1].id1type = IDMAP_UID THEN 1 ELSE 0)} :
          result' = <<[w.res EXCEPT !.retcode = w.retcode]>>
    /\ phase' = "looked"
    /\ UNCHANGED <<envVars, allocVars, obsVars, concVars, ordVars, idmap_cache,
                   name_cache, namerules, now, batch, lookup_state, trace,
                   minted, nbatches, nticks>>

NextWk == WkLookup

SpecWk == InitWk /\ [][NextWk]_vars

(***************************************************************************)
(* Properties of the batches                                               *)
(***************************************************************************)
\* The branches of dynamic_ephemeral_mapping, and those that give an id.
EphPaths == {"eph_stash", "eph_hist", "eph_mint", "eph_fail"}
EphGiven == {"eph_stash", "eph_hist", "eph_mint"}

\* C1: within one batch, of two items with the same SID that both come to
\* the ephemeral mapping of the second pass, the first having been given an
\* ephemeral id, the later one is given the same id and no call of the
\* allocator is made for it.
C1_SameSidSameId ==
    \A i, j \in DOMAIN batch :
        (/\ i < j
         /\ batch[i].id1 = batch[j].id1
         /\ trace[i] \in EphGiven
         /\ trace[j] \in EphPaths)
        => /\ trace[j] \in {"eph_stash", "eph_hist"}
           /\ result[j].retcode = IDMAP_SUCCESS
           /\ IS_EPHEMERAL(result[j].id)
           /\ result[j].id = result[i].id

C1_Witness ==
    \E i, j \in DOMAIN batch :
        /\ i < j
        /\ batch[i].id1 = batch[j].id1
        /\ trace[i] = "eph_mint"
        /\ trace[j] = "eph_hist"
        /\ result[j].id = result[i].id

\* A step in which an allocator is called.
AllocatorCalled == nreq' # nreq \/ win_calls' # win_calls

\* C5, the refused call: it returns the invalid id and leaves the window
\* limits alone; the item gets an internal error, the other items keep
\* their results, and the SID history is as before.
C5_RefusedStep ==
    (AllocatorCalled /\ last_call'.err # 0) =>
        /\ last_call'.out = UID_INVALID
        /\ limit_uid' = limit_uid /\ limit_gid' = limit_gid
        /\ result'[lookup_state.curpos + 1].retcode = IDMAP_ERR_INTERNAL
        /\ \A k \in DOMAIN result :
               k # lookup_state.curpos + 1 => result'[k] = result[k]
        /\ lookup_state'.sid_history = lookup_state.sid_history

\* C5, the call of the same allocator that follows a refused one: it asks
\* the authority again, and if the authority grants a block the call gives
\* the first id of that block with success.
C5_RetryStep ==
    (AllocatorCalled /\ last_call.err # 0 /\ last_call'.kind = last_call.kind)
    => /\ last_call'.asked
       /\ (last_call'.kind = "uid" /\ auth_uid' # auth_uid) =>
              /\ last_call'.err = 0 /\ last_call'.out = auth_uid
              /\ result'[lookup_state.curpos + 1].retcode = IDMAP_SUCCESS
              /\ result'[lookup_state.curpos + 1].id = auth_uid
       /\ (last_call'.kind = "gid" /\ auth_gid' # auth_gid) =>
              /\ last_call'.err = 0 /\ last_call'.out = auth_gid
              /\ result'[lookup_state.curpos + 1].retcode = IDMAP_SUCCESS
              /\ result'[lookup_state.curpos + 1].id = auth_gid

\* C5: when the id-space authority refuses a block, the allocation fails
\* for that request only: the allocator returns the error with the invalid
\* id and the limit unchanged, the ephemeral mapping reports an internal
\* error and registers nothing in the SID history, and the next allocation
\* asks the authority again and succeeds if a block is then granted.
C5_Refusal == [][C5_RefusedStep /\ C5_RetryStep]_vars

C5_Witness ==
    \E i, j \in DOMAIN batch :
        /\ i < j
        /\ trace[i] = "eph_fail" /\ result[i].retcode = IDMAP_ERR_INTERNAL
        /\ trace[j] = "eph_mint" /\ result[j].retcode = IDMAP_SUCCESS
        /\ batch[i].id2type = batch[j].id2type
        /\ last_call.asked /\ last_call.err = 0

\* C6: once a batch has minted an ephemeral uid for a SID and the cache
\* update has written it, a request for a uid of that SID in a later batch
\* is given that uid, and no id is minted for it.
C6_CachedUidReused ==
    phase = "done" =>
        \A m \in minted, i \in DOMAIN batch :
            (/\ m.nb < nbatches
             /\ m.idtype = IDMAP_UID
             /\ batch[i].id1 = m.sid
             /\ batch[i].id2type = IDMAP_UID)
            => /\ result[i].retcode = IDMAP_SUCCESS
               /\ result[i].id = m.pid
               /\ trace[i] # "eph_mint"

\* The entries of the well-known SID table that have no fixed id.
WkUnmapped(sid) ==
    \E k \in DOMAIN wksids : /\ wksids[k].sidprefix = sid.prefix
                             /\ wksids[k].rid = sid.rid
                             /\ wksids[k].pid = SENTINEL_PID
WkIsUser(sid) ==
    \E k \in DOMAIN wksids : /\ wksids[k].sidprefix = sid.prefix
                             /\ wksids[k].rid = sid.rid
                             /\ wksids[k].is_user = 1

NameMapped(i) == trace[i] \in EphPaths \cup {"name", "name_err"}

\* The rules that match item i, and the one of lowest w2u_order.
Matching(i) == NameruleRows(namerules, batch[i], result[i])
FirstRule(i) ==
    CHOOSE r \in Matching(i) :
        \A q \in Matching(i) : r.w2u_order <= q.w2u_order

LocalUser(name) == \E p \in passwd : p.pw_name = name

\* C8: the matching rules are tried in ascending w2u_order and the first
\* that is a deny or has a literal destination decides: a deny gives "no
\* mapping", a literal destination gives the id of that local user, or "no
\* mapping" if there is no such user; no later rule and no ephemeral id is
\* used.  So with foo@CORP -> "" (order 1) and foo@CORP -> bob (order 2)
\* the answer for foo@CORP is "no mapping".
C8_RulePriority ==
    \A i \in DOMAIN batch :
        (NameMapped(i) /\ Matching(i) # {}) =>
            /\ EMPTY_NAME(FirstRule(i).unixname) =>
                   /\ result[i].retcode = IDMAP_ERR_NOMAPPING
                   /\ trace[i] = "name_err"
            /\ (~EMPTY_NAME(FirstRule(i).unixname)
                    /\ ~FirstIsStar(FirstRule(i).unixname)) =>
                   IF LocalUser(FirstRule(i).unixname)
                   THEN /\ result[i].retcode = IDMAP_SUCCESS
                        /\ trace[i] = "name"
                        /\ \E p \in passwd :
                               /\ p.pw_name = FirstRule(i).unixname
                               /\ result[i].id = p.pw_uid
                   ELSE /\ result[i].retcode = IDMAP_ERR_NOMAPPING
                        /\ trace[i] = "name_err"

C8_Witness ==
    \E i \in DOMAIN batch :
        /\ batch[i].id1name = foo /\ batch[i].id1domain = CORP
        /\ \E r \in namerules :
               /\ r.winname = foo /\ r.unixname = EMPTY /\ r.w2u_order = 1
        /\ \E r \in namerules :
               /\ r.winname = foo /\ r.unixname = bob /\ r.w2u_order = 2
        /\ trace[i] = "name_err"
        /\ result[i].retcode = IDMAP_ERR_NOMAPPING

\* C9: when every matching rule has the destination "*" and the Windows
\* name is not a local user, the name-based mapping ends with "not found"
\* and the second pass goes on to the ephemeral mapping.
C9_WildcardFallback ==
    \A i \in DOMAIN batch :
        (/\ NameMapped(i)
         /\ Matching(i) # {}
         /\ \A r \in Matching(i) : r.unixname = STAR
         /\ ~LocalUser(batch[i].id1name))
        => /\ trace[i] \in EphPaths
           /\ result[i].retcode \in {IDMAP_SUCCESS, IDMAP_ERR_INTERNAL}
           /\ result[i].retcode = IDMAP_SUCCESS => IS_EPHEMERAL(result[i].id)

C9_Witness ==
    \E i \in DOMAIN batch :
        /\ batch[i].id1name = alice /\ batch[i].id1domain = CORP
        /\ namerules # {}
        /\ \A r \in namerules : r.winname = STAR /\ r.unixname = STAR
        /\ Matching(i) = namerules
        /\ trace[i] = "eph_mint"
        /\ IS_EPHEMERAL(result[i].id)

\* The rule of the call in nr_in has orders (get_namerule_order took it).
ValidRule(rule) ==
    get_namerule_order(rule.winname, rule.windomain, rule.unixname,
                       rule.direction).retcode = IDMAP_SUCCESS

\* The row of a rule agrees with a stored row in all columns of a key, the
\* order being set.
SameW2UKey(db, row) ==
    \E r \in db : /\ r.winname = row.winname /\ r.windomain = row.windomain
                  /\ r.is_user = row.is_user
                  /\ row.w2u_order # 0 /\ r.w2u_order = row.w2u_order

SameU2WKey(db, row) ==
    \E r \in db : /\ r.unixname = row.unixname /\ r.is_user = row.is_user
                  /\ row.u2w_order # 0 /\ r.u2w_order = row.u2w_order

C14_Outcome(db, row, retcode, db2) ==
    /\ (SameW2UKey(db, row) /\ ~SameU2WKey(db, row))
          => retcode = IDMAP_ERR_W2U_NAMERULE_CONFLICT
    /\ (SameU2WKey(db, row) /\ ~SameW2UKey(db, row))
          => retcode = IDMAP_ERR_U2W_NAMERULE_CONFLICT
    /\ (SameW2UKey(db, row) /\ SameU2WKey(db, row))
          => retcode \in {IDMAP_ERR_W2U_NAMERULE_CONFLICT,
                          IDMAP_ERR_U2W_NAMERULE_CONFLICT}
    /\ retcode # IDMAP_SUCCESS => db2 = db
    /\ (~SameW2UKey(db, row) /\ ~SameU2WKey(db, row))
          => retcode = IDMAP_SUCCESS /\ db2 = db \cup {row}

\* C14: add_namerule of a valid rule whose windows key (winname,
\* windomain, is_user, w2u_order) is that of a stored rule fails with
\* IDMAP_ERR_W2U_NAMERULE_CONFLICT, of one whose unix key (unixname,
\* is_user, u2w_order) is that of a stored rule with
\* IDMAP_ERR_U2W_NAMERULE_CONFLICT (with either of the two when both keys
\* are taken), never with IDMAP_ERR_CFG or IDMAP_ERR_INTERNAL, and a
\* failed insert leaves the rule table as it was.
C14_Conflict ==
    [][ValidRule(nr_in')
          => C14_Outcome(namerules,
                         namerule_row(nr_in', nr_out'), nr_out'.retcode,
                         namerules')]_vars

C14_Witness ==
    /\ nr_out.retcode = IDMAP_ERR_W2U_NAMERULE_CONFLICT
    /\ nr_in = Rule(foo, NULL, bob, IDMAP_DIRECTION_W2U)
    /\ namerules = {namerule_row(Rule(foo, CORP, bob, IDMAP_DIRECTION_W2U),
                                 [w2u_order |-> 2, u2w_order |-> 0])}

\* The row the id-mapping cache started with, and that of the name cache
\* (lookups leave the caches alone).
TheRow == CHOOSE r \in idmap_cache : TRUE
TheNameRow == CHOOSE r \in name_cache : TRUE

\* One lookup was made on the caches as they started.
OneLookup(op) == Len(trace) = 1 /\ trace[1] = op

Sid2pidOfRow ==
    /\ OneLookup("lookup_cache_sid2pid")
    /\ batch[1].id1 = [prefix |-> TheRow.sidprefix, rid |-> TheRow.rid]
    /\ batch[1].id2type \in {IDMAP_UID, IDMAP_POSIXID}

Pid2sidOfRow ==
    /\ OneLookup("lookup_cache_pid2sid")
    /\ batch[1].id1 = TheRow.pid
    /\ batch[1].id2type = IDMAP_SID

Sid2nameOfRow ==
    /\ OneLookup("lookup_cache_sid2name")
    /\ batch[1] = [prefix |-> TheNameRow.sidprefix, rid |-> TheNameRow.rid]

Name2sidOfRow ==
    /\ OneLookup("lookup_cache_name2sid")
    /\ batch[1] = TheNameRow.name

Suppressed(flag) ==
    \/ IDMAP_REQ_FLG_NO_NEW_ID_ALLOC \in flag
    \/ IDMAP_REQ_FLG_NO_NAMESERVICE \in flag

RowReturned ==
    /\ Sid2pidOfRow => /\ result[1].retcode = IDMAP_SUCCESS
                       /\ result[1].id = TheRow.pid
    /\ Pid2sidOfRow => /\ result[1].retcode = IDMAP_SUCCESS
                       /\ result[1].id = [prefix |-> TheRow.sidprefix,
                                          rid |-> TheRow.rid]
    /\ Sid2nameOfRow => /\ result[1].retcode = IDMAP_SUCCESS
                        /\ result[1].name = TheNameRow.name
    /\ Name2sidOfRow => /\ result[1].retcode = IDMAP_SUCCESS
                        /\ result[1].sidprefix = TheNameRow.sidprefix
                        /\ result[1].rid = TheNameRow.rid

RowNotReturned ==
    /\ (Sid2pidOfRow \/ Pid2sidOfRow \/ Sid2nameOfRow \/ Name2sidOfRow)
          => result[1].retcode = IDMAP_ERR_NOTFOUND
    /\ Pid2sidOfRow => result[1].id = ZeroRes.id
    /\ Sid2nameOfRow => result[1].name = NULL
    /\ Name2sidOfRow => result[1].sidprefix = NULL

\* C15 as the program has it: now being sampled once per call, a name
\* cache row, and an id-mapping cache row whose id is not ephemeral, is not
\* returned by a lookup when its expiration equals now and is returned
\* when its expiration equals now+1.  An id-mapping row with an ephemeral
\* id is returned whatever its expiration by the lookup of the SID by id,
\* and by the lookup of the id by SID of a request that forbids new ids or
\* the name service; for any other request the lookup by SID of a row
\* expiring now returns NotFound with the id stored in the result and the
\* expired-ephemeral mark set.
C15_TTLBoundary ==
    /\ (Sid2nameOfRow \/ Name2sidOfRow)
          => /\ TheNameRow.expiration = now => RowNotReturned
             /\ TheNameRow.expiration = now + 1 => RowReturned
    /\ (Sid2pidOfRow \/ Pid2sidOfRow)
          => /\ TheRow.expiration = now + 1 => RowReturned
             /\ (TheRow.expiration = now /\ ~IS_EPHEMERAL(TheRow.pid))
                   => RowNotReturned /\ result[1].id = ZeroRes.id
             /\ (TheRow.expiration = now /\ IS_EPHEMERAL(TheRow.pid))
                   => IF Pid2sidOfRow \/ Suppressed(batch[1].flag)
                      THEN RowReturned
                      ELSE /\ result[1].retcode = IDMAP_ERR_NOTFOUND
                           /\ result[1].id = TheRow.pid
                           /\ _IDMAP_F_EXP_EPH_UID \in batch[1].direction

C15_Witness ==
    /\ Name2sidOfRow
    /\ TheNameRow.expiration = now
    /\ result[1].retcode = IDMAP_ERR_NOTFOUND

\* C15 as stated: for every cache lookup a row whose expiration equals now
\* is not returned and a row whose expiration equals now+1 is returned.
C15_TTLBoundaryEveryRow ==
    /\ (Sid2nameOfRow \/ Name2sidOfRow)
          => /\ TheNameRow.expiration = now => RowNotReturned
             /\ TheNameRow.expiration = now + 1 => RowReturned
    /\ (Sid2pidOfRow \/ Pid2sidOfRow)
          => /\ TheRow.expiration = now
                   => result[1].retcode # IDMAP_SUCCESS
             /\ TheRow.expiration = now + 1 => RowReturned

\* The wanted type of a lookup goes with the id type of a written result.
Compatible(req, res) == req.id2type \in {res.idtype, IDMAP_POSIXID}

WriteThenLookup ==
    /\ trace = <<"update_cache_sid2pid", "lookup_cache_sid2pid">>
    /\ result[1].retcode = IDMAP_SUCCESS
    /\ batch[2].id1 = batch[1].id1
    /\ Compatible(batch[2], result[1])

\* C16: a cache write by update_cache_sid2pid of a SID with an id, followed
\* at once by lookup_cache_sid2pid of the same SID with a compatible wanted
\* type, returns that id, for any SID and any id, and the counters of the
\* ephemeral allocator stay as they were.
C16_RoundTrip ==
    /\ FreshWindows
    /\ WriteThenLookup => /\ result[2].retcode = IDMAP_SUCCESS
                          /\ result[2].id = result[1].id

C16_Witness ==
    /\ WriteThenLookup
    /\ batch[1].id1 = SidFoo
    /\ result[2].retcode = IDMAP_SUCCESS
    /\ result[2].id = U32(0, 5001)

\* What the two directory calls keep to, seen after any attempt.
C17_Bounded ==
    /\ lookup_state.ad.attempts <= 3
    /\ n2s.attempts <= 3
    /\ (phase = "ad" /\ lookup_state.ad.attempts > 0)
          => /\ lookup_state.ad.retcode = IDMAP_ERR_RETRIABLE_NET_ERR
             /\ lookup_state.ad.retries = lookup_state.ad.attempts
    /\ (n2s.pc = "retry" /\ n2s.attempts > 0)
          => /\ n2s.retcode = IDMAP_ERR_RETRIABLE_NET_ERR
             /\ n2s.retries = n2s.attempts
    /\ lookup_state.ad.retries = 3
          => /\ phase # "ad"
             /\ lookup_state.ad.winrc = IDMAP_ERR_RETRIABLE_NET_ERR
    /\ n2s.retries = 3
          => n2s.pc = "done" /\ n2s.ret = IDMAP_ERR_RETRIABLE_NET_ERR
    /\ lookup_state.ad.winrc = IDMAP_ERR_RETRIABLE_NET_ERR
          => lookup_state.ad.attempts = 3 /\ lookup_state.ad.retries = 3
    /\ n2s.ret = IDMAP_ERR_RETRIABLE_NET_ERR
          => n2s.attempts = 3 /\ n2s.retries = 3

\* C17: lookup_win_batch_sid2name and lookup_win_name2sid each start at
\* most 3 batches per call, start another only after a transient network
\* error, return that error when the third attempt failed with it, and
\* whatever the directory does the call comes to its return.
C17_Retries ==
    /\ []C17_Bounded
    /\ (phase = "ad") ~> (phase # "ad")
    /\ (n2s.pc = "retry") ~> (n2s.pc = "done")

C17_Witness ==
    /\ phase = "second"
    /\ lookup_state.ad.attempts = 3
    /\ lookup_state.ad.winrc = IDMAP_ERR_RETRIABLE_NET_ERR

\* The directory round has just returned.
RoundReturned == phase = "second" /\ lookup_state.curpos = 0

Marked(k) == _IDMAP_F_S2N_AD \in batch[k].direction

\* C18 as stated: when lookup_win_batch_sid2name returns success, every
\* item marked for the directory was enqueued in an attempt that reached
\* the end of its batch, also when an enqueue failed part-way through an
\* earlier attempt.
C18_AllSubmitted ==
    (RoundReturned /\ lookup_state.ad.winrc = IDMAP_SUCCESS)
        => \A k \in DOMAIN batch : Marked(k) => k \in lookup_state.ad.sent

\* C19: on a retry attempt of the directory round only items whose result
\* still carries the retriable error are enqueued, and an item that holds
\* another result is not enqueued and keeps its result and its names.
C19_RetryStep ==
    (phase = "ad" /\ lookup_state.ad.retries > 0)
        => \A k \in DOMAIN batch :
              /\ k \in lookup_state'.ad.enq
                    => result[k].retcode = IDMAP_ERR_RETRIABLE_NET_ERR
              /\ result[k].retcode # IDMAP_ERR_RETRIABLE_NET_ERR
                    => /\ k \notin lookup_state'.ad.enq
                       /\ result'[k] = result[k]
                       /\ batch'[k] = batch[k]

C19_OnlyUnresolved == [][C19_RetryStep]_vars

C19_Witness ==
    /\ RoundReturned
    /\ Len(batch) = 2
    /\ lookup_state.ad.attempts = 2
    /\ lookup_state.ad.enq = {2}
    /\ 1 \in lookup_state.ad.sent
    /\ Marked(1) /\ batch[1].id1name # NULL
    /\ result[1].retcode = IDMAP_SUCCESS

\* Pass 2 is over for every item of the batch.
SecondPassOver == phase \in {"update", "done"}

\* No item of the batch with the SID of item k has a result to cache.
NoneResolved(k) ==
    \A j \in DOMAIN batch :
        batch[j].id1 = batch[k].id1 => result[j].retcode # IDMAP_SUCCESS

Uncached(k) ==
    /\ \A r \in idmap_cache :
          ~(r.sidprefix = batch[k].id1.prefix /\ r.rid = batch[k].id1.rid)
    /\ \A r \in name_cache :
          ~(r.sidprefix = batch[k].id1.prefix /\ r.rid = batch[k].id1.rid)

\* C20 as stated: when the directory round gave up after the third
\* transient failure, every item marked for the directory and still
\* without a name ends pass 2 with the retriable error, the id nobody, no
\* ephemeral id and nothing in the cache, while an item resolved in pass 1
\* keeps the result of pass 1.
C20_GivenUp ==
    (SecondPassOver
     /\ lookup_state.ad.winrc = IDMAP_ERR_RETRIABLE_NET_ERR)
        => \A k \in DOMAIN batch :
              /\ (Marked(k) /\ batch[k].id1name = NULL)
                    => /\ result[k].retcode = IDMAP_ERR_RETRIABLE_NET_ERR
                       /\ result[k].id = UID_NOBODY
                       /\ trace[k] \notin EphGiven
                       /\ NoneResolved(k) => Uncached(k)
              /\ batch[k].direction = _IDMAP_F_DONE
                    => /\ trace[k] = "first"
                       /\ batch[k].id1 = SidCreatorOwner
                             => /\ result[k].retcode = IDMAP_SUCCESS
                                /\ result[k].id = IDMAP_WK_CREATOR_OWNER_UID

(***************************************************************************)
(* Properties of the batches holding both directions                       *)
(***************************************************************************)
\* C21: when the cache update handles an item whose status is not
\* success, in either direction, it leaves the mapping cache and the name
\* cache as they were.
C21_FailedItemNotCached ==
    [][(/\ phase = "update"
        /\ result[lookup_state.curpos + 1].retcode # IDMAP_SUCCESS)
          => /\ idmap_cache' = idmap_cache
             /\ name_cache' = name_cache]_vars

\* A batch whose cache update has handled a failed item of each direction,
\* both of them not Done after their passes.
C21_Witness ==
    /\ phase = "done" /\ Len(batch) = 2
    /\ \A k \in DOMAIN batch :
          /\ result[k].retcode # IDMAP_SUCCESS
          /\ batch[k].direction # _IDMAP_F_DONE
    /\ \E k \in DOMAIN batch : IS_BATCH_SID(batch, k)
    /\ \E k \in DOMAIN batch : ~IS_BATCH_SID(batch, k)

\* The final status NotFound as the program hands it out: a SID-to-id item
\* that the first pass ended on a miss because the request forbids new
\* mappings or name-service use, a SID-to-id item whose directory lookup
\* found nothing and whose SID is not a local one, and an id-to-SID item
\* whose id the name service does not know (it carries the local SID).
NotFoundFinal(k) ==
    IF IS_BATCH_SID(batch, k)
    THEN \/ batch[k].direction = _IDMAP_F_DONE /\ batch[k].flag # {}
         \/ /\ trace[k] = "failed"
            /\ ~\E d \in Directory : d.sid = batch[k].id1
            /\ batch[k].id1.prefix # machine_sid
    ELSE /\ trace[k] = "fallback"
         /\ batch[k].flag = {}
         /\ ~IS_EPHEMERAL(batch[k].id1)
         /\ ~(IF batch[k].id1type = IDMAP_UID
              THEN getpwuid_r(batch[k].id1, "up").found
              ELSE getgrgid_r(batch[k].id1, "up").found)
         /\ result[k].id.prefix = machine_sid

Superseding(i) ==
    /\ phase = "update" /\ i = lookup_state.curpos + 1
    /\ batch[i].direction \cap {_IDMAP_F_EXP_EPH_UID, _IDMAP_F_EXP_EPH_GID}
          # {}
    /\ result[i].retcode = IDMAP_SUCCESS
    /\ ~IS_EPHEMERAL(result[i].id)

\* The ephemeral ids the cache maps the SID to.
EphOf(cache, sid) ==
    {r.pid : r \in {q \in cache : /\ q.sidprefix = sid.prefix
                                  /\ q.rid = sid.rid
                                  /\ q.w2u = 1
                                  /\ IS_EPHEMERAL(q.pid)}}

\* Some SID-to-id cache lookup of sid answers with the id e.
SidLookupGives(cache, sid, e) ==
    \E req \in {Req(sid, t, f) :
                  t \in {IDMAP_UID, IDMAP_GID},
                  f \in {{}, {IDMAP_REQ_FLG_NO_NEW_ID_ALLOC}}} :
       \E c \in {lookup_cache_sid2pid(cache, req, ZeroRes, now)} :
          c.retcode = IDMAP_SUCCESS /\ c.res.id = e

\* The id-to-SID cache lookup of e answers with the SID sid.
PidLookupGives(cache, e, sid) ==
    \E t \in {IDMAP_UID, IDMAP_GID} :
       \E c \in {lookup_cache_pid2sid(cache, PidReq(e, IDMAP_SID), ZeroRes,
                                      IF t = IDMAP_UID THEN 1 ELSE 0, 0,
                                      now)} :
          c.retcode = IDMAP_SUCCESS /\ c.res.id = sid

\* C24 as stated: once update_cache_sid2pid has handled an item whose
\* expired ephemeral mapping was superseded by a name-based one, no
\* SID-to-id lookup of the SID gives the old ephemeral id, then and after
\* any further resolutions and cache updates, while the id-to-SID lookup of
\* the old id still gives the SID.  (A retired row is one with w2u = 0.)
C24_SupersededForGood ==
    /\ [][\A i \in DOMAIN batch : Superseding(i) =>
             \A e \in EphOf(idmap_cache, batch[i].id1) :
                /\ ~SidLookupGives(idmap_cache', batch[i].id1, e)
                /\ PidLookupGives(idmap_cache', e, batch[i].id1)]_vars
    /\ [](\A r \in idmap_cache : r.w2u = 0 =>
             /\ ~SidLookupGives(idmap_cache,
                                [prefix |-> r.sidprefix, rid |-> r.rid],
                                r.pid)
             /\ PidLookupGives(idmap_cache, r.pid,
                               [prefix |-> r.sidprefix, rid |-> r.rid]))

\* The row that lookup_cache_sid2pid selects for the item i, if it holds an
\* ephemeral id and has expired.
ExpiredEphRows(i) ==
    {r \in idmap_cache : /\ r.sidprefix = batch[i].id1.prefix
                         /\ r.rid = batch[i].id1.rid
                         /\ r.w2u = 1
                         /\ IS_EPHEMERAL(r.pid)
                         /\ r.expiration # 0 /\ r.expiration <= now}

ExpiredMark(r) ==
    IF r.is_user # 0 THEN _IDMAP_F_EXP_EPH_UID ELSE _IDMAP_F_EXP_EPH_GID

RowType(r) == IF r.is_user # 0 THEN IDMAP_UID ELSE IDMAP_GID

\* The first pass of the item i.
FirstPassOf(i) ==
    /\ phase = "first" /\ i = lookup_state.curpos + 1
    /\ batch'[i].id1 = batch[i].id1

\* The second pass of the item i, which carries the mark of an expired
\* ephemeral id, with the rules finding nothing for it.
SecondPassStashed(i) ==
    /\ phase = "second" /\ i = lookup_state.curpos + 1
    /\ batch[i].direction
          \cap {_IDMAP_F_EXP_EPH_UID, _IDMAP_F_EXP_EPH_GID} # {}
    /\ result[i].retcode = IDMAP_SUCCESS
    /\ \A ord \in SortedRows(namerules) :
          name_based_mapping_sid2pid(ord, batch[i], result[i]).retcode
              = IDMAP_ERR_NOTFOUND
    /\ _IDMAP_F_S2N_AD \in batch[i].direction
          => verify_type(batch[i].id2type, result[i].idtype,
                         result[i]).retcode = IDMAP_SUCCESS

\* C27: the first pass of an item whose cached mapping is an expired
\* ephemeral id.  Without a suppress flag the id is stashed in the result,
\* the mark ExpiredEphemeralUid or ExpiredEphemeralGid is set and the item
\* is not terminal; if the rules of pass 2 then find nothing, the item is
\* resolved to the stashed id and no id is minted.  With a suppress flag
\* (the mapping being of the requested type) the expired id is returned as
\* a cache hit and the item is terminal.
C27_ExpiredEphemeral ==
    /\ [][\A i \in DOMAIN batch : \A r \in ExpiredEphRows(i) :
             FirstPassOf(i) =>
                IF batch[i].flag = {}
                THEN /\ result'[i].id = r.pid
                     /\ ExpiredMark(r) \in batch'[i].direction
                     /\ batch'[i].direction # _IDMAP_F_DONE
                ELSE RowType(r) = batch[i].id2type
                        => /\ result'[i].retcode = IDMAP_SUCCESS
                           /\ result'[i].id = r.pid
                           /\ batch'[i].direction = _IDMAP_F_DONE]_vars
    /\ [][\A i \in DOMAIN batch :
             SecondPassStashed(i) =>
                /\ result'[i].retcode = IDMAP_SUCCESS
                /\ result'[i].id = result[i].id
                /\ IS_EPHEMERAL(result'[i].id)
                /\ trace'[i] = "eph_stash"
                /\ UNCHANGED <<allocVars, nreq>>]_vars

\* A finished batch whose item was resolved to the stashed id while a rule
\* was there that found nothing for it.
C27_Witness ==
    /\ phase = "done" /\ Len(batch) = 1
    /\ trace[1] = "eph_stash"
    /\ namerules # {}
    /\ result[1].retcode = IDMAP_SUCCESS
    /\ \E r \in idmap_cache : /\ r.pid = result[1].id
                              /\ r.w2u = 1
                              /\ r.expiration = now + IDMAP_CACHE_TTL
    /\ nticks > 0

(***************************************************************************)
(* Properties of the flagged, named and mistyped requests                  *)
(***************************************************************************)
\* The first pass is about to take the item i, which forbids new mappings
\* or name-service use and which neither the well-known table nor the
\* cache resolves.
FlaggedMiss(i) ==
    /\ phase = "first" /\ i = lookup_state.curpos + 1
    /\ DO_NOT_ALLOC_NEW_ID_MAPPING(batch[i]) \/ AVOID_NAMESERVICE(batch[i])
    /\ lookup_wksids_sid2pid(batch[i], result[i]).retcode
          = IDMAP_ERR_NOTFOUND
    /\ lookup_cache_sid2pid(idmap_cache, batch[i], result[i], now).retcode
          = IDMAP_ERR_NOTFOUND

\* The item i was ended by the first pass as a flagged miss.
EndedAsMiss(i) ==
    /\ phase \in {"ad", "second", "update"}
    /\ batch[i].flag # {}
    /\ batch[i].direction = _IDMAP_F_DONE
    /\ result[i].retcode = IDMAP_ERR_NOTFOUND

\* C28: on a miss in the well-known table and in the cache, with new
\* mappings or name-service use forbidden, the first pass ends the item as
\* terminal (its state exactly Done) with the sentinel id and leaves the
\* count of directory queries as it was; the later stages leave the item
\* alone: pass 2 gives it no ephemeral id and the cache update writes
\* nothing for it.
C28_FlaggedMissTerminal ==
    /\ [][\A i \in DOMAIN batch : FlaggedMiss(i) =>
             /\ batch'[i].direction = _IDMAP_F_DONE
             /\ result'[i].id = SENTINEL_PID
             /\ lookup_state'.ad_nqueries = lookup_state.ad_nqueries
             /\ lookup_state'.sid2pid_done = lookup_state.sid2pid_done]_vars
    /\ [][\A i \in DOMAIN batch :
             (EndedAsMiss(i) /\ phase # "ad" /\ i = lookup_state.curpos + 1) =>
                /\ result' = result /\ batch' = batch
                /\ UNCHANGED <<allocVars, nreq, idmap_cache, name_cache>>
                /\ result[i].id = SENTINEL_PID]_vars
    /\ [](\A i \in DOMAIN batch : EndedAsMiss(i) =>
             _IDMAP_F_S2N_AD \notin batch[i].direction)

\* A finished batch that went through both passes and the cache update
\* with a flagged miss as its second item.
C28_Witness ==
    /\ phase = "done" /\ Len(batch) = 2
    /\ batch[1].direction # _IDMAP_F_DONE
    /\ result[1].retcode = IDMAP_SUCCESS
    /\ batch[2].flag = {IDMAP_REQ_FLG_NO_NAMESERVICE}
    /\ batch[2].direction = _IDMAP_F_DONE
    /\ result[2].retcode = IDMAP_ERR_NOTFOUND
    /\ result[2].id = SENTINEL_PID
    /\ trace[2] = "first"
    /\ \A r \in idmap_cache : r.rid # batch[2].id1.rid

\* The first pass is about to take the item i and will bring it to the
\* stage of the names: the well-known table and the cache do not resolve
\* it and it carries neither flag.
NameStage(i) ==
    /\ phase = "first" /\ i = lookup_state.curpos + 1
    /\ batch[i].id1.prefix # SQLNULL
    /\ ~(DO_NOT_ALLOC_NEW_ID_MAPPING(batch[i]) \/ AVOID_NAMESERVICE(batch[i]))
    /\ lookup_wksids_sid2pid(batch[i], result[i]).retcode
          = IDMAP_ERR_NOTFOUND
    /\ lookup_cache_sid2pid(idmap_cache, batch[i], result[i], now).retcode
          = IDMAP_ERR_NOTFOUND

\* The request i arrives with the name and the domain of its SID.
Named(i) == batch[i].id1name # NULL /\ batch[i].id1domain # NULL

\* What lookup_local_sid2name returns for the item i.
LocalRc(i) ==
    lookup_local_sid2name(name_cache, batch[i], result[i], now).retcode

\* The items of the batch bound for the directory.
MarkedForAD == {k \in DOMAIN batch : _IDMAP_F_S2N_AD \in batch[k].direction}

\* C29: in the first pass of a SID item that reaches the stage of the
\* names, NameFromCache is set when the request carries name and domain or
\* the local lookup succeeds; NameFromDirectory is set, and the count of
\* directory queries goes up by one, exactly when the local lookup returns
\* NotFound; an item that does not reach the stage gets neither mark and
\* does not count.  No item carries both marks, and during and after the
\* first pass the count is the number of items marked NameFromDirectory.
C29_NameMarks ==
    /\ [][\A i \in DOMAIN batch :
            (phase = "first" /\ i = lookup_state.curpos + 1) =>
               /\ _IDMAP_F_S2N_CACHE \in batch'[i].direction
                     <=> (NameStage(i) /\
                            (Named(i) \/ LocalRc(i) = IDMAP_SUCCESS))
               /\ _IDMAP_F_S2N_AD \in batch'[i].direction
                     <=> (NameStage(i) /\ ~Named(i)
                            /\ LocalRc(i) = IDMAP_ERR_NOTFOUND)
               /\ lookup_state'.ad_nqueries = lookup_state.ad_nqueries +
                     (IF _IDMAP_F_S2N_AD \in batch'[i].direction
                      THEN 1 ELSE 0)]_vars
    /\ [](\A i \in DOMAIN batch :
             ~({_IDMAP_F_S2N_CACHE, _IDMAP_F_S2N_AD} \subseteq
                  batch[i].direction))
    /\ [](phase \in {"first", "ad"} =>
             lookup_state.ad_nqueries = Cardinality(MarkedForAD))

\* The first pass is over: the first item got its name from the well-known
\* table, the second is bound for the directory and is the one query
\* counted.
C29_Witness ==
    /\ phase = "ad" /\ Len(batch) = 2
    /\ lookup_state.ad.attempts = 0
    /\ batch[1].id1 = SidEveryone /\ batch[1].id1name # NULL
    /\ _IDMAP_F_S2N_CACHE \in batch[1].direction
    /\ batch[2].id1name = NULL
    /\ MarkedForAD = {2}
    /\ lookup_state.ad_nqueries = 1

\* The second pass is about to take the item i, whose name came from the
\* directory with a type that contradicts the requested one.
DirectoryMistyped(i) ==
    /\ phase = "second" /\ i = lookup_state.curpos + 1
    /\ _IDMAP_F_S2N_AD \in batch[i].direction
    /\ result[i].retcode \in {IDMAP_SUCCESS, IDMAP_NEXT}
    /\ \/ batch[i].id2type = IDMAP_UID /\ result[i].idtype = _IDMAP_T_GROUP
       \/ batch[i].id2type = IDMAP_GID /\ result[i].idtype = _IDMAP_T_USER

\* The item i was ended by the second pass for its type.
EndedMistyped(i) ==
    /\ _IDMAP_F_S2N_AD \in batch[i].direction
    /\ trace[i] = "type"

\* C30: in the second pass, an item named by the directory whose resolved
\* type contradicts the requested one (a group for a uid request, a user
\* for a gid request) ends with NotUser or NotGroup and the nobody id; the
\* rules are not consulted and no ephemeral id is allocated for it, and the
\* cache update writes nothing for it.
C30_DirectoryTypeMismatch ==
    /\ [][\A i \in DOMAIN batch : DirectoryMistyped(i) =>
             /\ result'[i].retcode =
                   IF batch[i].id2type = IDMAP_UID
                   THEN IDMAP_ERR_NOTUSER ELSE IDMAP_ERR_NOTGROUP
             /\ result'[i].id = UID_NOBODY
             /\ result'[i].idtype = batch[i].id2type
             /\ trace'[i] = "type"
             /\ batch'[i] = batch[i]
             /\ lookup_state'.sid2pid_done =
                   IF i = Len(batch) THEN TRUE ELSE lookup_state.sid2pid_done
             /\ UNCHANGED <<allocVars, nreq, win_calls, eph_out>>]_vars
    /\ [][\A i \in DOMAIN batch :
             (phase = "update" /\ i = lookup_state.curpos + 1
                 /\ EndedMistyped(i)) =>
                UNCHANGED <<idmap_cache, name_cache>>]_vars
    /\ [](\A i \in DOMAIN batch :
             (phase \in {"update", "done"} /\ EndedMistyped(i)) =>
                /\ result[i].retcode \in {IDMAP_ERR_NOTUSER,
                                          IDMAP_ERR_NOTGROUP}
                /\ result[i].id = UID_NOBODY
                /\ \A r \in minted :
                      (r.nb = nbatches /\ r.sid = batch[i].id1) =>
                         r.idtype # batch[i].id2type)

\* A finished batch whose first item was mapped and cached and whose second
\* item, a group asked for as a user, was ended by the second pass.
C30_Witness ==
    /\ phase = "done" /\ Len(batch) = 2
    /\ result[1].retcode = IDMAP_SUCCESS /\ trace[1] = "eph_mint"
    /\ \E r \in idmap_cache : r.rid = batch[1].id1.rid
    /\ batch[2].id1 = SidAdmins /\ batch[2].id2type = IDMAP_UID
    /\ EndedMistyped(2)
    /\ result[2].retcode = IDMAP_ERR_NOTUSER
    /\ result[2].id = UID_NOBODY
    /\ \A r \in idmap_cache : r.rid # SidAdmins.rid
    /\ \A r \in name_cache : r.rid # SidAdmins.rid

(***************************************************************************)
(* Properties of the SIDs of this machine                                  *)
(***************************************************************************)
\* The second pass is about to take the item i, a SID of this machine that
\* the earlier stages did not find.
LocalNotFound(i) ==
    /\ phase = "second" /\ i = lookup_state.curpos + 1
    /\ batch[i].direction # _IDMAP_F_DONE
    /\ result[i].retcode = IDMAP_ERR_NOTFOUND
    /\ batch[i].id1.prefix = machine_sid

\* The id that the rid of a local SID stands for: its type and its value.
LocalDecode(rid) ==
    IF rid.hi > 0 THEN [idtype |-> IDMAP_GID, id |-> U32(0, rid.lo)]
    ELSE [idtype |-> IDMAP_UID, id |-> U32(0, rid.lo - LOCALRID_MIN)]

\* The rid lies in one of the two ranges that are decoded.
LocalRid(rid) == rid.hi > 0 \/ rid.lo >= LOCALRID_MIN

\* The item i was decoded by the second pass as a local SID.
DecodedLocal(i) == trace[i] = "local"

\* C31: in the second pass, an item not found by the earlier stages whose
\* SID prefix is the machine SID is decoded by arithmetic: uid = rid - 1000
\* for a rid in [1000, 2^31 - 1], gid = rid - 2^31 for a rid >= 2^31; it
\* ends with success.  A requested type that contradicts the range of the
\* rid gives NotUser or NotGroup.  The cache update writes the decoded
\* item to the id-mapping cache and leaves the name cache as it was.
C31_LocalSidDecoded ==
    /\ [][\A i \in DOMAIN batch : LocalNotFound(i) =>
            LET rid == batch[i].id1.rid
                d == LocalDecode(rid)
                t == batch[i].id2type
            IN  IF LocalRid(rid) /\ t \in {d.idtype, IDMAP_POSIXID}
                THEN /\ result'[i].retcode = IDMAP_SUCCESS
                     /\ result'[i].id = d.id
                     /\ result'[i].idtype = d.idtype
                     /\ trace'[i] = "local"
                ELSE /\ result'[i].retcode =
                           IF t = IDMAP_UID /\ rid.hi > 0
                           THEN IDMAP_ERR_NOTUSER
                           ELSE IF t = IDMAP_GID /\ rid.hi = 0
                           THEN IDMAP_ERR_NOTGROUP
                           ELSE IDMAP_ERR_NOTFOUND
                     /\ result'[i].id = UID_NOBODY]_vars
    /\ [][\A i \in DOMAIN batch :
            (phase = "update" /\ i = lookup_state.curpos + 1
                /\ DecodedLocal(i)) =>
               /\ name_cache' = name_cache
               /\ \E r \in idmap_cache' :
                     /\ r.sidprefix = machine_sid
                     /\ r.rid = batch[i].id1.rid
                     /\ r.pid = result[i].id
                     /\ r.is_user = (IF result[i].idtype = IDMAP_UID
                                     THEN 1 ELSE 0)
                     /\ r.w2u = 1
                     /\ r.expiration = now + IDMAP_CACHE_TTL]_vars

\* A finished batch: the SID <machine-sid>-1100 gave uid 100, the SID
\* <machine-sid>-(2^31 + 10) gave gid 10, both are in the id-mapping cache
\* and the name cache is empty.
C31_Witness ==
    /\ phase = "done" /\ Len(batch) = 2
    /\ batch[1] = [Req(LocalSid(0, 1100), IDMAP_UID, {})
                      EXCEPT !.direction = {_IDMAP_F_S2N_CACHE}]
    /\ result[1].retcode = IDMAP_SUCCESS /\ result[1].id = U32(0, 100)
    /\ batch[2].id1 = LocalSid(1, 10)
    /\ result[2].retcode = IDMAP_SUCCESS /\ result[2].id = U32(0, 10)
    /\ result[2].idtype = IDMAP_GID
    /\ DecodedLocal(1) /\ DecodedLocal(2)
    /\ \E r \in idmap_cache : r.rid = U32(0, 1100) /\ r.pid = U32(0, 100)
    /\ \E r \in idmap_cache : r.rid = U32(1, 10) /\ r.pid = U32(0, 10)
    /\ name_cache = {}

(***************************************************************************)
(* Properties of the cache update                                          *)
(***************************************************************************)
\* The cache update is about to take the SID item i.
UpdateOf(i) ==
    /\ phase = "update" /\ i = lookup_state.curpos + 1
    /\ IS_BATCH_SID(batch, i)

\* The id-mapping row that the update writes for the item i.
MappingRowOf(i, r) ==
    /\ r.sidprefix = batch[i].id1.prefix /\ r.rid = batch[i].id1.rid
    /\ r.pid = result[i].id
    /\ r.is_user = (IF result[i].idtype = IDMAP_UID THEN 1 ELSE 0)
    /\ r.w2u = 1
    /\ r.expiration = now + IDMAP_CACHE_TTL

\* The name row that the update writes for the item i.
NameRowOf(i, r) ==
    /\ r.sidprefix = batch[i].id1.prefix /\ r.rid = batch[i].id1.rid
    /\ r.name = batch[i].id1name /\ r.domain = batch[i].id1domain
    /\ r.expiration = now + NAME_CACHE_TTL

\* C32: for an item that the passes computed (its state is not exactly
\* Done) and that ended with success, update_cache_sid2pid upserts the
\* id-mapping row with the windows-to-unix flag set, and upserts the row of
\* the name cache if and only if NameFromCache is not set and the request
\* holds a name; for an item that pass 1 resolved at once (state exactly
\* Done) it writes nothing.
C32_ComputedItemCached ==
    [][\A i \in DOMAIN batch : UpdateOf(i) =>
          IF batch[i].direction = _IDMAP_F_DONE
          THEN UNCHANGED <<idmap_cache, name_cache>>
          ELSE result[i].retcode = IDMAP_SUCCESS =>
                 /\ \E r \in idmap_cache' : MappingRowOf(i, r)
                 /\ IF /\ _IDMAP_F_S2N_CACHE \notin batch[i].direction
                       /\ batch[i].id1name # NULL
                    THEN \E r \in name_cache' : NameRowOf(i, r)
                    ELSE name_cache' = name_cache]_vars

(***************************************************************************)
(* Properties of the ids that no rule maps                                 *)
(***************************************************************************)
\* The first pass is about to take the id-to-SID item i, which the
\* well-known table and the cache do not resolve, whose id is not ephemeral
\* and which carries no flag.
PidUnresolved(i) ==
    /\ phase = "first" /\ i = lookup_state.curpos + 1
    /\ ~IS_BATCH_SID(batch, i)
    /\ lookup_wksids_pid2sid(batch[i], result[i],
          IF batch[i].id1type = IDMAP_UID THEN 1 ELSE 0).retcode
          = IDMAP_ERR_NOTFOUND
    /\ lookup_cache_pid2sid(idmap_cache, batch[i], result[i],
          IF batch[i].id1type = IDMAP_UID THEN 1 ELSE 0, 0, now).retcode
          = IDMAP_ERR_NOTFOUND
    /\ ~IS_EPHEMERAL(batch[i].id1)
    /\ ~(DO_NOT_ALLOC_NEW_ID_MAPPING(batch[i]) \/ AVOID_NAMESERVICE(batch[i]))

\* The name service knows the id of the item i.
NsKnows(i) ==
    IF batch[i].id1type = IDMAP_UID
    THEN getpwuid_r(batch[i].id1, "up").found
    ELSE getgrgid_r(batch[i].id1, "up").found

\* The SID of this machine that stands for the id of the item i.
LocalSidOf(i) ==
    [prefix |-> machine_sid,
     rid |-> IF batch[i].id1type = IDMAP_UID
             THEN U32Add(batch[i].id1, LOCALRID_MIN)
             ELSE U32(1, batch[i].id1.lo)]

\* The id of the item i has a local SID: any gid, and the uids up to
\* 2^31 - 1 - 1000.
HasLocalSid(i) ==
    \/ batch[i].id1type = IDMAP_GID
    \/ ~U32Gt(batch[i].id1, U32(0, INT32_MAX - LOCALRID_MIN))

\* The row of the id-mapping cache that holds the local SID of the item i,
\* valid in both directions.
LocalRowOf(i, r) ==
    /\ r.sidprefix = machine_sid /\ r.rid = result[i].id.rid
    /\ r.pid = batch[i].id1
    /\ r.is_user = (IF batch[i].id1type = IDMAP_UID THEN 1 ELSE 0)
    /\ r.w2u = 1 /\ r.u2w = "1"

\* The first pass found no mapping for the item i: the name service does
\* not know the id, or the rules gave nothing for its name.
PidNoMapping(i) ==
    /\ PidUnresolved(i)
    /\ \/ trace'[i] = "localsid"
       \/ /\ trace'[i] = "fallback" /\ ~NsKnows(i)
          /\ result'[i].retcode # IDMAP_ERR_INTERNAL

RidOf(id, t) ==
    IF t = IDMAP_UID THEN U32(0, id.lo + LOCALRID_MIN) ELSE U32(1, id.lo)

\* generate_localsid has a SID for the id: a gid up to 2^31 - 1, a uid up
\* to 2^31 - 1 - 1000.
InLocalRange(id, t) ==
    id.hi = 0 /\ (t = IDMAP_UID => id.lo <= INT32_MAX - LOCALRID_MIN)

\* C34: for every uid <= 2^31 - 1 - 1000 and every gid <= 2^31 - 1,
\* generate_localsid gives the machine SID with rid = uid + 1000 or
\* rid = gid + 2^31 (in 32 bits), lookup_localsid2pid of that SID gives
\* back the id with its type, and the rid of a user is never the rid of a
\* group.
C34_RoundTrip ==
    /\ (phase \in {"generated", "decoded"}
          /\ InLocalRange(batch[1].id1, batch[1].id1type)) =>
            /\ result[1].retcode = IDMAP_SUCCESS
            /\ result[1].id.prefix = machine_sid
            /\ result[1].id.rid = RidOf(batch[1].id1, batch[1].id1type)
            /\ \A g \in TripIds :
                  batch[1].id1type = IDMAP_UID =>
                     result[1].id.rid # RidOf(g, IDMAP_GID)
            /\ \A u \in TripIds :
                  (batch[1].id1type = IDMAP_GID
                      /\ InLocalRange(u, IDMAP_UID)) =>
                     result[1].id.rid # RidOf(u, IDMAP_UID)
    /\ phase = "decoded" =>
            /\ InLocalRange(batch[1].id1, batch[1].id1type)
            /\ result[2].retcode = IDMAP_SUCCESS
            /\ result[2].id = batch[1].id1
            /\ result[2].idtype = batch[1].id1type

\* The greatest uid that has a local SID, generated and decoded again.
C34_Witness ==
    /\ phase = "decoded"
    /\ batch[1].id1 = U32(0, INT32_MAX - LOCALRID_MIN)
    /\ batch[1].id1type = IDMAP_UID
    /\ result[1].id.rid = U32(0, INT32_MAX)
    /\ batch[2].id2type = IDMAP_POSIXID
    /\ result[2].id = U32(0, INT32_MAX - LOCALRID_MIN)
    /\ result[2].idtype = IDMAP_UID

\* The first pass is about to take the id-to-SID item i, which the
\* well-known table and the cache do not resolve and which must not be
\* mapped: its id is ephemeral or it carries a flag.
PidMustNotMap(i) ==
    /\ phase = "first" /\ i = lookup_state.curpos + 1
    /\ ~IS_BATCH_SID(batch, i)
    /\ lookup_wksids_pid2sid(batch[i], result[i],
          IF batch[i].id1type = IDMAP_UID THEN 1 ELSE 0).retcode
          = IDMAP_ERR_NOTFOUND
    /\ lookup_cache_pid2sid(idmap_cache, batch[i], result[i],
          IF batch[i].id1type = IDMAP_UID THEN 1 ELSE 0, 0, now).retcode
          = IDMAP_ERR_NOTFOUND
    /\ \/ IS_EPHEMERAL(batch[i].id1)
       \/ DO_NOT_ALLOC_NEW_ID_MAPPING(batch[i])
       \/ AVOID_NAMESERVICE(batch[i])

\* C35: pid2sid_first_pass maps no id that it must not map.  An ephemeral
\* id found neither in the well-known table nor in the cache, and any
\* cache miss of a request carrying a flag, ends with NoMapping in state
\* exactly Done: neither the name service nor the rules are consulted (the
\* request gets no name), the result gets no SID, and the cache update
\* writes nothing for the item.
C35_NoMappingForForbidden ==
    /\ [][\A i \in DOMAIN batch : PidMustNotMap(i) =>
             /\ result'[i].retcode = IDMAP_ERR_NOMAPPING
             /\ batch'[i] = batch[i]
             /\ result'[i].id = result[i].id
             /\ "prefix" \notin DOMAIN result'[i].id
             /\ trace'[i] = "nomap"
             /\ lookup_state'.pid2sid_done = lookup_state.pid2sid_done]_vars
    /\ [][\A i \in DOMAIN batch :
            (phase \in {"second", "update"} /\ i = lookup_state.curpos + 1
                /\ trace[i] = "nomap") =>
               UNCHANGED <<idmap_cache, name_cache, batch, result>>]_vars
    /\ [](\A i \in DOMAIN batch :
            (phase \in {"first", "ad", "second", "update", "done"}
                /\ trace[i] = "nomap") =>
               /\ batch[i].direction = _IDMAP_F_DONE
               /\ result[i].retcode = IDMAP_ERR_NOMAPPING)

\* A finished batch that went through the cache update: gid 10 got a local
\* SID and was cached, the ephemeral uid ended with NoMapping and nothing
\* was cached for it.
C35_Witness ==
    /\ phase = "done" /\ Len(batch) = 2
    /\ batch[1].id1 = U32(0, 10) /\ batch[1].flag = {}
    /\ result[1].retcode = IDMAP_SUCCESS
    /\ \E r \in idmap_cache : r.pid = U32(0, 10)
    /\ IS_EPHEMERAL(batch[2].id1)
    /\ trace[2] = "nomap"
    /\ result[2].retcode = IDMAP_ERR_NOMAPPING
    /\ batch[2].direction = _IDMAP_F_DONE
    /\ \A r \in idmap_cache : r.pid # batch[2].id1

(***************************************************************************)
(* Properties of the results of the SID-to-id direction                    *)
(***************************************************************************)
\* C36: whenever the SID-to-id resolution of an item has ended with a
\* status other than success, the result carries no mapped id: its id is
\* the nobody id or the sentinel, never an expired ephemeral id that the
\* cache lookup stashed.
C36_FailureCarriesNoId ==
    phase = "done" =>
       \A i \in DOMAIN batch :
          (IS_BATCH_SID(batch, i) /\ result[i].retcode # IDMAP_SUCCESS) =>
             result[i].id \in {UID_NOBODY, SENTINEL_PID}

\* The ephemeral id of the result i was handed out by the counter of the
\* type t for the SID of the item.
MintedAs(i, t) ==
    \E m \in minted : /\ m.sid = batch[i].id1 /\ m.pid = result[i].id
                      /\ m.idtype = t

\* C37: every successful SID-to-id result for a request that asks for a
\* uid has the id type uid and an id of the user side, and for a request
\* that asks for a gid the id type gid and an id of the group side, also
\* when the id is an expired ephemeral id stashed by the cache lookup or
\* comes from the SID history of the batch: such an id was handed out by
\* the counter of the requested type.
C37_ResultOfRequestedType ==
    phase = "done" =>
       \A i \in DOMAIN batch :
          (/\ IS_BATCH_SID(batch, i)
           /\ result[i].retcode = IDMAP_SUCCESS
           /\ batch[i].id2type \in {IDMAP_UID, IDMAP_GID}) =>
             /\ result[i].idtype = batch[i].id2type
             /\ trace[i] \in {"eph_stash", "eph_hist"} =>
                   MintedAs(i, batch[i].id2type)

(***************************************************************************)
(* Properties of the well-known lookup by id                               *)
(***************************************************************************)
\* The rows of the well-known table that hold the SID of the result.
WkRowsOf(res) ==
    {k \in DOMAIN wksids : /\ wksids[k].sidprefix = res.id.prefix
                           /\ wksids[k].rid = res.id.rid}

\* C38: lookup_wksids_pid2sid never returns a SID whose table row is marked
\* unmapped, for any 32-bit id and either type: the SID it returns belongs
\* to a row with that id as its fixed id, the same is_user and a direction
\* other than windows-to-unix-only, and that row is not an unmapped one.
C38_WkNeverUnmapped ==
    (phase = "looked" /\ result[1].retcode = IDMAP_SUCCESS) =>
       /\ WkRowsOf(result[1]) # {}
       /\ \A k \in WkRowsOf(result[1]) :
             /\ wksids[k].pid = batch[1].id1
             /\ wksids[k].is_user =
                   (IF batch[1].id1type = IDMAP_UID THEN 1 ELSE 0)
             /\ wksids[k].direction # IDMAP_DIRECTION_W2U
             /\ wksids[k].pid # SENTINEL_PID

\* The part of C38 about the row chosen, without the unmapped mark.
WkRowMatches ==
    (phase = "looked" /\ result[1].retcode = IDMAP_SUCCESS) =>
       /\ WkRowsOf(result[1]) # {}
       /\ \A k \in WkRowsOf(result[1]) :
             /\ wksids[k].pid = batch[1].id1
             /\ wksids[k].is_user =
                   (IF batch[1].id1type = IDMAP_UID THEN 1 ELSE 0)
             /\ wksids[k].direction # IDMAP_DIRECTION_W2U

(***************************************************************************)
(* Properties of init_dbs' return value                                    *)
(***************************************************************************)
\* init_db_instance ended without an error for the store set up as d.
InstanceOk(d) == d.db /\ d.ret = 0

\* C39: init_dbs reports failure whenever the initialisation of either
\* store failed, also when the transaction could not be begun or could not
\* be committed or rolled back (init_db_instance's return value is then
\* positive), and reports success only when both stores were initialised
\* without an error.
C39_InitFailureReported ==
    startup.pc = "done" =>
       (startup.ret = 0 <=>
           (InstanceOk(startup.db) /\ InstanceOk(startup.cache)))

\* init_dbs reports failure exactly when a store could not be opened.
InitReportsOpenFailure ==
    startup.pc = "done" =>
       (startup.ret = 0 <=> (startup.db.db /\ startup.cache.db))

(***************************************************************************)
(* Properties of id-to-SID requests that carry the unix name               *)
(***************************************************************************)
\* What the first pass gives for the item i when the unix-to-windows rules
\* are matched against the name the request carries: the answers of the
\* name-based mapping for that name, under every order of the rules and
\* every behaviour of the network.
SuppliedNameOutcomes(i) ==
    {pid_pass_named(lookup_state,
        IF batch[i].id1type = IDMAP_UID THEN 1 ELSE 0, batch[i].id1name,
        name_based_mapping_pid2sid(ord, name_cache, batch[i].id1name,
            IF batch[i].id1type = IDMAP_UID THEN 1 ELSE 0,
            [batch[i] EXCEPT !.direction = _IDMAP_F_DONE],
            [result[i] EXCEPT !.idtype = batch[i].id2type],
            net, now)).res :
       ord \in SortedRowsU2W(namerules), net \in NetRuns}

\* C40: when an id-to-SID request carries the unix name, pid2sid_first_pass
\* matches the unix-to-windows rules against that name and does not depend
\* on the name service's answer for the numeric id: whatever that answer
\* is, the result is one that the rules give for the supplied name, so a
\* failing name-service lookup cannot make the request fail.
C40_SuppliedNameDecides ==
    [][\A i \in DOMAIN batch :
          (PidUnresolved(i) /\ batch[i].id1name # NULL) =>
             result'[i] \in SuppliedNameOutcomes(i)]_vars

====
